---- MODULE Spec2Model ----
(***************************************************************************)
(* Model of picpro, a host-side driver for the K128/K149/K150 serial PIC   *)
(* programmers.                                                            *)
(*                                                                         *)
(*  - SpecFuse : the fuse codec of ChipInfoEntry (encode_fuse_data,        *)
(*               decode_fuse_data) applied to bounded inputs.              *)
(*  - Spec     : sessions with the programmer - the connection, the        *)
(*               programming interface, the commands of bin/picpro.py and  *)
(*               direct calls, against the programmer on a serial line     *)
(*               that may garble or lose an answer byte.                   *)
(***************************************************************************)
EXTENDS Integers, Sequences, FiniteSets, TLC

VARIABLES
    \* ---- fuse codec -----------------------------------------------------
    fuseChip,   \* index of the chip whose fuse table is in use
    fuseCall,   \* "none" | "encode" | "decode" | "roundtrip"
    fuseArg,    \* argument of the last codec call
    fuseRet,    \* its outcome
    \* ---- flash data ------------------------------------------------------
    flashChip,  \* index into FlashChips: the chip the FlashData is built for
    hex_file,   \* data bytes of the hex file: a set of <<address, byte>>
    flashData,  \* the FlashData built from it, or NotBuilt
    \* ---- hex file reader ------------------------------------------------
    file,       \* the text of the hex file: a sequence of lines of characters
    lineNo,     \* number of lines HexFileReader has read
    ext_address,\* its running extended address
    records,    \* its records: a sequence of <<address, data>>
    eof,        \* TRUE when it has read an EOF record
    hexRaised,  \* what it raised ("none" if nothing)
    merged,     \* a call that merged records into a buffer: [call, records,
                \*   base_address, error, value], call = "none" before it
    \* ---- ProtocolInterface ----------------------------------------------
    pi,         \* a ProtocolInterface and the last call made on it
    romBlank, \* a rom_is_blank call: [pc, rom_size, expected_b_bytes, responses, result, in_jump_table]
    cliRun, \* a program run of the CLI: [pc, chip, pic_id, fuses, fuse_values, stmt, sent, error]
    cid, \* the chip database: [files, reader, line, block, chip_entries, error]
    mock, \* the mocked serial device, its thread and the test thread
    \* ---- session: host side ---------------------------------------------
    revision,   \* firmware revision the session is built for: "P018" | "P18A"
    chip,       \* index into ProtoChips: the ChipInfoEntry of the session
    mode,       \* what drives the host: "api" or a CLI command of bin/picpro.py
    detected_programmer_version, \* version byte recorded by reset(), -1 if none
    port,       \* serial port: "closed" | "open" | "released" (opened, then closed)
    iface,      \* programming interface: "none" | "ready" | "failed"
    runPc,      \* next statement of the CLI command / number of the next direct call
    hostCmd,    \* chip or connection command being executed ("none" if none)
    hostScript, \* remaining I/O steps of hostCmd
    hostRegs,   \* bytes read by the last reads: [response, expect, ack, result]
    hostOutcome,\* outcome of the last call
    txn,        \* TRUE when a FuseTransaction has been handed out
    verified,   \* result of _verify_pipeline so far
    cmdLog,     \* tags of the writes of the current (or last) command
    opsSent,    \* opcodes of chip commands sent to the device during a CLI run
    staged,     \* history: an ID+fuses staging on a 16-bit core succeeded
    snapshot,   \* device state observed when the serial port was closed
    calibration_word, \* FlashData.calibration_word (<<>> stands for None)
    \* ---- wire ------------------------------------------------------------
    h2d,        \* bytes written by the host, not yet read by the device
    d2h,        \* bytes written by the device, not yet read by the host
    faults,     \* number of line faults and device read timeouts so far
    \* ---- device ----------------------------------------------------------
    dev         \* programmer: [pc, in_jump_table, is_programming_voltages_on,
                \*   programing_vars, todo, want, buf, rom, eeprom, fuses]

fuseVars == <<fuseChip, fuseCall, fuseArg, fuseRet>>

hostVars == <<revision, chip, mode, detected_programmer_version, port, iface, runPc, hostCmd, hostScript, hostRegs,
              hostOutcome, txn, verified, cmdLog, opsSent, staged, snapshot,
              calibration_word>>

wireVars == <<h2d, d2h, faults>>

devVars == <<dev>>

protoVars == <<hostVars, wireVars, devVars>>

flashVars == <<flashChip, hex_file, flashData>>

hexVars == <<file, lineNo, ext_address, records, eof, hexRaised, merged>>

piVars == <<pi>>

blankVars == <<romBlank>>

runVars == <<cliRun>>

cidVars == <<cid>>

mockVars == <<mock>>

vars == <<fuseVars, flashVars, hexVars, piVars, blankVars, runVars, cidVars, mockVars, protoVars>>

\* what the actions of one part of the model leave alone
offSession == <<fuseVars, flashVars, hexVars, piVars, blankVars, runVars, cidVars, mockVars>>
offFuse == <<flashVars, hexVars, piVars, blankVars, runVars, cidVars, mockVars, protoVars>>
offFlash == <<fuseVars, hexVars, piVars, blankVars, runVars, cidVars, mockVars, protoVars>>
offHex == <<fuseVars, flashVars, piVars, blankVars, runVars, cidVars, mockVars, protoVars>>
offBlank == <<fuseVars, flashVars, hexVars, piVars, runVars, cidVars, mockVars, protoVars>>
offRun == <<fuseVars, flashVars, hexVars, piVars, blankVars, cidVars, mockVars, protoVars>>
offCid == <<fuseVars, flashVars, hexVars, piVars, blankVars, runVars, mockVars, protoVars>>
offMock == <<fuseVars, flashVars, hexVars, piVars, blankVars, runVars, cidVars, protoVars>>
offPI == <<fuseVars, flashVars, hexVars, blankVars, runVars, cidVars, mockVars, protoVars>>

(***************************************************************************)
(* Bounds                                                                  *)
(***************************************************************************)
\* Low bits of an observed fuse word that are varied (bits 0..FuseBits-1).
FuseBits == 5

\* Disturbances per session: garbled or lost answer bytes, and read timeouts
\* of the device thread.
MaxFaults == 1

\* Direct calls of the connection and the interface per session.
MaxCalls == 2

\* The outcome of a call: a returned value or a raised exception.
Returned(v) == [error |-> "none", value |-> v]
Raised(e) == [error |-> e, value |-> <<>>]

(***************************************************************************)
(* Byte helpers (picpro/tools.py)                                          *)
(***************************************************************************)
RECURSIVE BitAnd(_, _)
BitAnd(a, b) ==
    IF a = 0 \/ b = 0 THEN 0
    ELSE (a % 2) * (b % 2) + 2 * BitAnd(a \div 2, b \div 2)

RECURSIVE Pow2(_)
Pow2(n) == IF n = 0 THEN 1 ELSE 2 * Pow2(n - 1)

\* indexwise_and(fuses, setting_values): word index+1 of the sequence is
\* AND-ed with value for every (index, value) pair, in order.
RECURSIVE indexwise_and(_, _)
indexwise_and(fuses, setting_values) ==
    IF setting_values = <<>> THEN fuses
    ELSE LET index == Head(setting_values)[1]
             value == Head(setting_values)[2]
         IN  indexwise_and([fuses EXCEPT ![index + 1] = BitAnd(fuses[index + 1], value)],
                           Tail(setting_values))

(***************************************************************************)
(* Chip fuse tables.  A chip is [fuse_blank, fuses]; fuses is the ordered  *)
(* list of fuses, a fuse the ordered list of its settings, a setting the   *)
(* list of (fuse index, mask) pairs.  Fuses and settings are named by      *)
(* their position (Python dicts iterate in definition order).              *)
(***************************************************************************)
FuseChips ==
    << \* 10F200 as loaded by the chip-info reader test
       [fuse_blank |-> <<4095>>,
        fuses |-> << << << <<0, 16383>> >>, << <<0, 16379>> >> >>,      \* WDT
                     << << <<0, 16383>> >>, << <<0, 16375>> >> >>,      \* Code Protect
                     << << <<0, 16383>> >>, << <<0, 16367>> >> >> >>],  \* MCLRE
       \* 14-bit chip with a multi-bit oscillator fuse whose masks are not nested
       [fuse_blank |-> <<16383>>,
        fuses |-> << << << <<0, 16383>> >>, << <<0, 16379>> >> >>,      \* WDT
                     << << <<0, 16383>> >>, << <<0, 16382>> >>,         \* Oscillator
                        << <<0, 16381>> >>, << <<0, 16380>> >>,
                        << <<0, 16367>> >>, << <<0, 16366>> >> >> >>],
       \* 16-bit chip: two fuse words, settings that clear no bit (mask FFFF)
       [fuse_blank |-> <<65535, 65535>>,
        fuses |-> << << << <<0, 65535>> >>, << <<0, 65534>> >> >>,
                     << << <<0, 65535>>, <<1, 65535>> >>,
                        << <<0, 65533>>, <<1, 65534>> >> >> >>]
    >>

FuseChipIds == 1..Len(FuseChips)

\* Observed fuse words: the high bits are those of a 16-bit or of a 14-bit
\* word, the low FuseBits bits take every value.
FuseWordPool ==
    { hi + lo : hi \in {65535 - (Pow2(FuseBits) - 1), 16383 - (Pow2(FuseBits) - 1)},
                lo \in 0..(Pow2(FuseBits) - 1) }

FuseWordLists(c) == [1..Len(FuseChips[c].fuse_blank) -> FuseWordPool]

\* A fully specified mapping: one declared setting for every declared fuse.
FullSettings(c) ==
    { s \in [1..Len(FuseChips[c].fuses) -> 1..6] :
        \A f \in DOMAIN s : s[f] <= Len(FuseChips[c].fuses[f]) }

(***************************************************************************)
(* ChipInfoEntry.decode_fuse_data                                          *)
(***************************************************************************)
\* The inner loop over the settings of one fuse, from setting k on.
\* st = [best_value, setting, fuse_identified]
RECURSIVE DecodeScan(_, _, _, _)
DecodeScan(fuse_settings, fuse_values, k, st) ==
    IF k > Len(fuse_settings) THEN st
    ELSE LET setting_value == fuse_settings[k]
         IN  IF /\ indexwise_and(fuse_values, setting_value) = fuse_values
                /\ indexwise_and(st.best_value, setting_value) # st.best_value
             THEN DecodeScan(fuse_settings, fuse_values, k + 1,
                             [best_value |-> indexwise_and(st.best_value, setting_value),
                              setting |-> k,
                              fuse_identified |-> TRUE])
             ELSE DecodeScan(fuse_settings, fuse_values, k + 1, st)

DecodeFuse(fuse_settings, fuse_values) ==
    DecodeScan(fuse_settings, fuse_values, 1,
               [best_value |-> [i \in 1..Len(fuse_values) |-> 65535],
                setting |-> 0,
                fuse_identified |-> FALSE])

decode_fuse_data(c, fuse_values) ==
    LET fuse_param_list == FuseChips[c].fuses
        per == [f \in 1..Len(fuse_param_list) |-> DecodeFuse(fuse_param_list[f], fuse_values)]
    IN  IF \E f \in DOMAIN per : ~per[f].fuse_identified
        THEN Raised("FuseError")
        ELSE Returned([f \in DOMAIN per |-> per[f].setting])

(***************************************************************************)
(* ChipInfoEntry.encode_fuse_data; fuse_dict is a function from fuse       *)
(* numbers to setting numbers.                                             *)
(***************************************************************************)
RECURSIVE EncodeFrom(_, _, _, _)
EncodeFrom(c, fuse_dict, todo, result) ==
    IF todo = {} THEN Returned(result)
    ELSE LET fuse == CHOOSE f \in todo : \A g \in todo : f <= g
         IN  IF fuse \notin 1..Len(FuseChips[c].fuses) THEN Raised("FuseError")
             ELSE IF fuse_dict[fuse] \notin 1..Len(FuseChips[c].fuses[fuse]) THEN Raised("FuseError")
             ELSE EncodeFrom(c, fuse_dict, todo \ {fuse},
                             indexwise_and(result, FuseChips[c].fuses[fuse][fuse_dict[fuse]]))

encode_fuse_data(c, fuse_dict) ==
    EncodeFrom(c, fuse_dict, DOMAIN fuse_dict, FuseChips[c].fuse_blank)

\* The loop "for fuse in fuse_dict" over a mapping given as the list of its
\* (fuse, setting) items in the order the dict iterates them.
RECURSIVE EncodeItems(_, _, _)
EncodeItems(c, items, result) ==
    IF items = <<>> THEN Returned(result)
    ELSE LET fuse == Head(items)[1]
             fuse_value == Head(items)[2]
             fuse_param_list == FuseChips[c].fuses
         IN  IF fuse \notin DOMAIN fuse_param_list THEN Raised("FuseError")
             ELSE IF fuse_value \notin DOMAIN fuse_param_list[fuse] THEN Raised("FuseError")
             ELSE EncodeItems(c, Tail(items),
                              indexwise_and(result, fuse_param_list[fuse][fuse_value]))

\* encode_fuse_data that starts from words with every bit set
encode_fuse_items_from_ones(c, items) ==
    EncodeItems(c, items, [i \in DOMAIN FuseChips[c].fuse_blank |-> 65535])

\* encode_fuse_data(fuse_dict) for any mapping: result = list(self.fuse_blank)
encode_fuse_items(c, items) ==
    EncodeItems(c, items, FuseChips[c].fuse_blank)

\* dict.update: the settings of fuse_settings, replaced where fuses has one
DictUpdate(fuse_settings, fuses) ==
    [f \in DOMAIN fuse_settings |->
        IF f \in DOMAIN fuses THEN fuses[f] ELSE fuse_settings[f]]

\* FlashData.fuse_data: fuse_values are the words of the fuse buffer, fuses
\* the overrides given to FlashData (<<>> is the empty dict, which is falsy)
fuse_data(c, fuse_values, fuses) ==
    IF DOMAIN fuses = {} THEN Returned(fuse_values)
    ELSE LET fuse_settings == decode_fuse_data(c, fuse_values)
         IN  IF fuse_settings.error # "none" THEN fuse_settings
             ELSE encode_fuse_data(c, DictUpdate(fuse_settings.value, fuses))

\* The fuse words of the hex files tried: the first word takes every value
\* of the pool, the later words are blank or have their lowest bit cleared
HexFuseWords(c) ==
    { [i \in DOMAIN FuseChips[c].fuse_blank |-> IF i = 1 THEN first ELSE later] :
        first \in FuseWordPool, later \in {65535, 65534, 16383, 16382} }

\* The overrides tried: a declared setting for each fuse of any set of
\* declared fuses (FlashData.__init__ has encoded them without error)
FuseOverrides(c) ==
    LET n == Len(FuseChips[c].fuses)
    IN  { o \in UNION { [D -> 1..6] : D \in SUBSET (1..n) } :
            \A f \in DOMAIN o : o[f] <= Len(FuseChips[c].fuses[f]) }

\* The mappings tried: every list of items with distinct keys; the keys are
\* the declared fuses and one undeclared fuse, the values the declared
\* settings of the fuse and one undeclared setting.
FuseItems(c) ==
    LET n == Len(FuseChips[c].fuses)
        pairs == { <<f, k>> : f \in 1..(n + 1), k \in 1..7 }
        ok(p) == IF p[1] <= n THEN p[2] <= Len(FuseChips[c].fuses[p[1]]) + 1 ELSE p[2] = 1
        good == { p \in pairs : ok(p) }
    IN  { items \in UNION { [1..m -> good] : m \in 0..(n + 1) } :
            \A i, j \in DOMAIN items : i # j => items[i][1] # items[j][1] }

(***************************************************************************)
(* Wire protocol: bytes, chips, opcode tables                              *)
(***************************************************************************)
\* ASCII codes of the answer bytes
Ch_A == 65
Ch_C == 67
Ch_F == 70
Ch_I == 73
Ch_N == 78
Ch_O == 79
Ch_P == 80
Ch_Q == 81
Ch_V == 86
Ch_Y == 89
Ch_v == 118
Ch_0 == 48
Ch_B == 66

\* ChipInfoEntry.get_core_bits; 0 stands for None
get_core_bits(core_type) ==
    IF core_type \in {1, 2} THEN 16
    ELSE IF core_type \in {3, 5, 6, 7, 8, 9, 10} THEN 14
    ELSE IF core_type \in {4} THEN 12
    ELSE 0

\* The chips of the sessions (ChipInfoEntry fields the protocol uses).
\* power_sequence is the integer of power_sequence_dict; fuse_table is the
\* index of the chip's fuse table in FuseChips.
ProtoChips ==
    << [core_type |-> 3, rom_size |-> 32, eeprom_size |-> 32, flash_chip |-> TRUE,
        cal_word |-> TRUE, band_gap |-> TRUE, program_delay |-> 10, power_sequence |-> 3,
        erase_mode |-> 2, program_tries |-> 1, over_program |-> 0, vcc_vpp_delay |-> FALSE,
        fuse_table |-> 2],
       [core_type |-> 1, rom_size |-> 32, eeprom_size |-> 32, flash_chip |-> TRUE,
        cal_word |-> FALSE, band_gap |-> FALSE, program_delay |-> 10, power_sequence |-> 1,
        erase_mode |-> 3, program_tries |-> 1, over_program |-> 0, vcc_vpp_delay |-> FALSE,
        fuse_table |-> 3],
       [core_type |-> 4, rom_size |-> 32, eeprom_size |-> 0, flash_chip |-> FALSE,
        cal_word |-> FALSE, band_gap |-> FALSE, program_delay |-> 20, power_sequence |-> 2,
        erase_mode |-> 0, program_tries |-> 3, over_program |-> 1, vcc_vpp_delay |-> TRUE,
        fuse_table |-> 1] >>

ProtoChipIds == 1..Len(ProtoChips)

core_bits(c) == get_core_bits(ProtoChips[c].core_type)

\* ChipInfoEntry.has_eeprom is a plain method; the CLI tests the attribute
\* chip_info_entry.has_eeprom without calling it, and a bound method is true.
has_eeprom(c) == ProtoChips[c].eeprom_size # 0

has_eeprom_attribute(c) == TRUE

\* The opcode table of the programmer's firmware, per revision.
TableOpcode(rev, name) ==
    CASE name = "init_programming_vars" -> 3
      [] name = "vpp_on" -> 4
      [] name = "vpp_off" -> 5
      [] name = "cycle_programming_voltages" -> 6
      [] name = "program_rom" -> 7
      [] name = "program_eeprom" -> 8
      [] name = "program_id_fuses" -> 9
      [] name = "program_calibration" -> 10
      [] name = "read_rom" -> 11
      [] name = "read_eeprom" -> 12
      [] name = "read_config" -> 13
      [] name = "erase_chip" -> IF rev = "P018" THEN 15 ELSE 14
      [] name = "rom_is_blank" -> IF rev = "P018" THEN 16 ELSE 15
      [] name = "eeprom_is_blank" -> IF rev = "P018" THEN 17 ELSE 16
      [] name = "program_18fxxxx_fuse" -> IF rev = "P018" THEN 18 ELSE 17
      [] name = "wait_until_chip_in_socket" -> IF rev = "P018" THEN 19 ELSE 18
      [] name = "wait_until_chip_out_of_socket" -> IF rev = "P018" THEN 20 ELSE 19
      [] name = "programmer_version" -> IF rev = "P018" THEN 21 ELSE 20
      [] name = "programmer_protocol" -> IF rev = "P018" THEN 22 ELSE 21

\* The opcodes the host sends.  P018: the literals of the P018 interface and
\* of its FuseTransaction.  P18A: the attributes set by the P18A interface
\* and the literals of the P18A connection; program_id_fuses of the base
\* interface hands out the FuseTransaction of its own module, whose opcode
\* attribute is 0.
Opcode(rev, name) ==
    CASE name = "init_programming_vars" -> 3
      [] name = "vpp_on" -> 4
      [] name = "vpp_off" -> 5
      [] name = "cycle_programming_voltages" -> 6
      [] name = "program_rom" -> 7
      [] name = "program_eeprom" -> 8
      [] name = "program_id_fuses" -> 9
      [] name = "program_calibration" -> 10
      [] name = "read_rom" -> 11
      [] name = "read_eeprom" -> 12
      [] name = "read_config" -> 13
      [] name = "erase_chip" -> IF rev = "P018" THEN 15 ELSE 14
      [] name = "rom_is_blank" -> IF rev = "P018" THEN 16 ELSE 15
      [] name = "eeprom_is_blank" -> IF rev = "P018" THEN 17 ELSE 16
      [] name = "program_18fxxxx_fuse" -> IF rev = "P018" THEN 18 ELSE 0
      [] name = "wait_until_chip_in_socket" -> IF rev = "P018" THEN 19 ELSE 18
      [] name = "wait_until_chip_out_of_socket" -> IF rev = "P018" THEN 20 ELSE 19
      [] name = "programmer_version" -> IF rev = "P018" THEN 21 ELSE 20
      [] name = "programmer_protocol" -> IF rev = "P018" THEN 22 ELSE 21

ChipCommandNames ==
    {"program_rom", "program_eeprom", "program_id_fuses", "program_calibration",
     "read_rom", "read_eeprom", "read_config", "erase_chip", "program_18fxxxx_fuse"}

\* struct.pack('>H', n)
BE16(n) == << (n \div 256) % 256, n % 256 >>

\* struct.unpack('>H', b)
UnBE16(b) == b[1] * 256 + b[2]

Rep(n, b) == [i \in 1..n |-> b]

Slice(seq, from, to) ==
    IF to < from THEN <<>> ELSE SubSeq(seq, from, IF to > Len(seq) THEN Len(seq) ELSE to)

\* Flash image of a session: ROM words 0x280F, EEPROM bytes 0x5A.
RomImage(c) == [i \in 1..(ProtoChips[c].rom_size * 2) |-> IF i % 2 = 1 THEN 40 ELSE 15]

EepromImage(c) == Rep(ProtoChips[c].eeprom_size, 90)

\* An erased chip: ROM words all ones within the core width, EEPROM 0xFF.
BlankRom(c) == [i \in 1..(ProtoChips[c].rom_size * 2) |-> IF i % 2 = 1 THEN 63 ELSE 255]

BlankEeprom(c) == Rep(ProtoChips[c].eeprom_size, 255)

\* FlashData.id_data / fuse_data of the image: 8 (16-bit) or 4 bytes, 7 or 1 words
IdImage(c) == IF core_bits(c) = 16 THEN Rep(8, 0) ELSE Rep(4, 0)

FuseImage(c) == IF core_bits(c) = 16 THEN Rep(7, 65535) ELSE Rep(1, 16383)

\* struct.pack('<H...', *fuses)
RECURSIVE LE16s(_)
LE16s(words) ==
    IF words = <<>> THEN <<>>
    ELSE << Head(words) % 256, (Head(words) \div 256) % 256 >> \o LE16s(Tail(words))

(***************************************************************************)
(* Host commands as sequences of I/O steps.  A step is one of              *)
(*   w   serial_connection.write(data); tag names what the bytes are       *)
(*   r   reg = read(n) - short when the deadline passes (never, if forever)*)
(*   ra  result = result + read(n)                                         *)
(*   t   raise InvalidResponseError unless reg = want; flush: the except   *)
(*       clause of program_rom calls flushInput() before re-raising        *)
(*   u   struct.unpack: raise struct.error unless reg holds n bytes        *)
(*   ret return; tag names the value handed back                           *)
(***************************************************************************)
Step(k, data, tag, n, reg, want, flag) ==
    [k |-> k, data |-> data, tag |-> tag, n |-> n, reg |-> reg, want |-> want, flag |-> flag]

W(data, tag) == Step("w", data, tag, 0, "", <<>>, FALSE)
R(n, reg) == Step("r", <<>>, "", n, reg, <<>>, FALSE)
RForever(n, reg) == Step("r", <<>>, "", n, reg, <<>>, TRUE)
RA(n) == Step("ra", <<>>, "", n, "result", <<>>, FALSE)
T(reg, want) == Step("t", <<>>, "", 0, reg, want, FALSE)
TFlush(reg, want) == Step("t", <<>>, "", 0, reg, want, TRUE)
U(reg, n) == Step("u", <<>>, "", n, reg, <<>>, FALSE)
Ret(tag) == Step("ret", <<>>, tag, 0, "", <<>>, FALSE)
Probe(n) == Step("probe", <<>>, "", n, "response", <<>>, FALSE)

\* IConnection.command_end
command_end ==
    << W(<<1>>, "jump_exit"), R(1, "ack"), T("ack", <<Ch_Q>>) >>

\* IConnection.expect(expected, timeout, send_command_end)
expect(expected, send_command_end) ==
    << R(Len(expected), "expect") >>
    \o (IF send_command_end THEN command_end ELSE <<>>)
    \o << T("expect", expected) >>

\* expect(..., timeout=None, send_command_end=True)
expect_forever(expected) ==
    << RForever(Len(expected), "expect") >> \o command_end \o << T("expect", expected) >>

\* a wait in program_rom that goes on without reading the answer
expect_in_try_skipped(expected) == <<>>

\* expect() inside the try block of program_rom
expect_in_try(expected) ==
    << R(Len(expected), "expect"), TFlush("expect", expected) >>

\* command_start that does not wait for the 'P' before it goes on
command_start_unacked(cmd, name) ==
    << W(<<1>>, "resync") >> \o expect(<<Ch_Q>>, FALSE)
    \o << W(<<Ch_P>>, "jump_enter") >>
    \o (IF cmd = -1 THEN <<>> ELSE << W(<<cmd>>, name) >>)

\* IConnection.command_start(cmd); cmd = 0 - 1 stands for None
command_start(cmd, name) ==
    << W(<<1>>, "resync") >> \o expect(<<Ch_Q>>, FALSE)
    \o << W(<<Ch_P>>, "jump_enter"), R(1, "ack"), T("ack", <<Ch_P>>) >>
    \o (IF cmd = -1 THEN <<>> ELSE << W(<<cmd>>, name) >>)

\* IProgrammingInterface.set_programming_voltages_command(on)
set_programming_voltages_command(rev, on) ==
    IF on THEN << W(<<Opcode(rev, "vpp_on")>>, "vpp_on") >> \o expect(<<Ch_V>>, FALSE)
    ELSE << W(<<Opcode(rev, "vpp_off")>>, "vpp_off") >> \o expect(<<Ch_v>>, FALSE)

\* flags and payload of _init_programming_vars: struct.pack('>HHBBBBBBB', ...)
VarsFlags(c) ==
    (IF ProtoChips[c].cal_word THEN 1 ELSE 0) + (IF ProtoChips[c].band_gap THEN 2 ELSE 0)
    + (IF ProtoChips[c].core_type = 1 THEN 4 ELSE 0)
    + (IF ProtoChips[c].vcc_vpp_delay THEN 8 ELSE 0)

VarsPayload(c) ==
    BE16(ProtoChips[c].rom_size) \o BE16(ProtoChips[c].eeprom_size)
    \o << ProtoChips[c].core_type, VarsFlags(c), ProtoChips[c].program_delay,
          ProtoChips[c].power_sequence, ProtoChips[c].erase_mode,
          ProtoChips[c].program_tries, ProtoChips[c].over_program >>

\* IProgrammingInterface._init_programming_vars, with the opcode cmd it uses
init_programming_vars(c, cmd) ==
    command_start(cmd, "init_programming_vars")
    \o << W(VarsPayload(c), "payload") >>
    \o expect(<<Ch_I>>, TRUE) \o << Ret("none") >>

\* IProgrammingInterface.cycle_programming_voltages
cycle_programming_voltages(rev) ==
    command_start(Opcode(rev, "cycle_programming_voltages"), "cycle_programming_voltages")
    \o expect(<<Ch_V>>, TRUE) \o << Ret("none") >>

\* the packet loop of program_rom: for i in range(0, word_count * 2, 32)
RECURSIVE RomPackets(_, _, _)
RomPackets(data, i, limit) ==
    IF i >= limit THEN <<>>
    ELSE << W(Slice(data, i + 1, i + 32), "payload") >> \o expect_in_try(<<Ch_Y>>)
         \o RomPackets(data, i + 32, limit)

\* IProgrammingInterface.program_rom, after its argument checks
program_rom(rev, data) ==
    LET word_count == Len(data) \div 2
    IN  command_start(-1, "")
        \o set_programming_voltages_command(rev, TRUE)
        \o << W(<<Opcode(rev, "program_rom")>>, "program_rom"), W(BE16(word_count), "payload") >>
        \o expect(<<Ch_Y>>, FALSE)
        \o RomPackets(data, 0, word_count * 2)
        \o expect_in_try(<<Ch_P>>)
        \o set_programming_voltages_command(rev, FALSE)
        \o command_end \o << Ret("none") >>

\* the chunk loop of program_eeprom: for i in range(0, byte_count, 2)
RECURSIVE EepromChunks(_, _, _)
EepromChunks(data, i, limit) ==
    IF i >= limit THEN <<>>
    ELSE << W(Slice(data, i + 1, i + 2), "payload") >> \o expect(<<Ch_Y>>, FALSE)
         \o EepromChunks(data, i + 2, limit)

\* program_eeprom without the two zero bytes after the last chunk
program_eeprom_no_tail(rev, data) ==
    LET byte_count == Len(data)
    IN  command_start(-1, "")
        \o set_programming_voltages_command(rev, TRUE)
        \o << W(<<Opcode(rev, "program_eeprom")>>, "program_eeprom"),
              W(BE16(byte_count), "payload") >>
        \o expect(<<Ch_Y>>, FALSE)
        \o EepromChunks(data, 0, byte_count)
        \o expect(<<Ch_P>>, FALSE)
        \o set_programming_voltages_command(rev, FALSE)
        \o command_end \o << Ret("none") >>

\* IProgrammingInterface.program_eeprom, after its argument checks
program_eeprom(rev, data) ==
    LET byte_count == Len(data)
    IN  command_start(-1, "")
        \o set_programming_voltages_command(rev, TRUE)
        \o << W(<<Opcode(rev, "program_eeprom")>>, "program_eeprom"),
              W(BE16(byte_count), "payload") >>
        \o expect(<<Ch_Y>>, FALSE)
        \o EepromChunks(data, 0, byte_count)
        \o << W(<<0, 0>>, "payload") >>
        \o expect(<<Ch_P>>, FALSE)
        \o set_programming_voltages_command(rev, FALSE)
        \o command_end \o << Ret("none") >>

\* command_body one byte short
IdFusesBody_short(c, pic_id, fuses) ==
    IF core_bits(c) = 16
    THEN <<Ch_0, Ch_0>> \o pic_id \o Tail(LE16s(fuses))
    ELSE <<Ch_0, Ch_0>> \o pic_id \o <<Ch_F, Ch_F, Ch_F, Ch_F>> \o LE16s(<<fuses[1]>>)
         \o Rep(11, 255)

\* command_body of program_id_fuses
IdFusesBody(c, pic_id, fuses) ==
    IF core_bits(c) = 16
    THEN <<Ch_0, Ch_0>> \o pic_id \o LE16s(fuses)
    ELSE <<Ch_0, Ch_0>> \o pic_id \o <<Ch_F, Ch_F, Ch_F, Ch_F>> \o LE16s(<<fuses[1]>>)
         \o Rep(12, 255)

\* program_id_fuses that hands out a transaction whatever the core
program_id_fuses_any_core(rev, c, pic_id, fuses) ==
    command_start(-1, "")
    \o set_programming_voltages_command(rev, TRUE)
    \o << W(<<Opcode(rev, "program_id_fuses")>>, "program_id_fuses"),
          W(IdFusesBody(c, pic_id, fuses), "payload"),
          R(1, "response") >>
    \o set_programming_voltages_command(rev, FALSE)
    \o command_end
    \o << T("response", <<Ch_Y>>), Ret("FuseTransaction") >>

\* IProgrammingInterface.program_id_fuses, after its argument checks
program_id_fuses(rev, c, pic_id, fuses) ==
    command_start(-1, "")
    \o set_programming_voltages_command(rev, TRUE)
    \o << W(<<Opcode(rev, "program_id_fuses")>>, "program_id_fuses"),
          W(IdFusesBody(c, pic_id, fuses), "payload"),
          R(1, "response") >>
    \o set_programming_voltages_command(rev, FALSE)
    \o command_end
    \o << T("response", <<Ch_Y>>),
          Ret(IF core_bits(c) = 16 THEN "FuseTransaction" ELSE "none") >>

\* IFuseTransaction.program_18fxxxx_fuse
program_18fxxxx_fuse(rev, fuses) ==
    command_start(-1, "")
    \o set_programming_voltages_command(rev, TRUE)
    \o << W(<<Opcode(rev, "program_18fxxxx_fuse")>>, "program_18fxxxx_fuse"),
          W(Rep(10, 0) \o LE16s(fuses), "payload"),
          R(1, "response") >>
    \o set_programming_voltages_command(rev, FALSE)
    \o command_end
    \o << T("response", <<Ch_Y>>), Ret("none") >>

\* IProgrammingInterface.program_calibration
program_calibration(rev, calibrate, fuse) ==
    command_start(-1, "")
    \o set_programming_voltages_command(rev, TRUE)
    \o << W(<<Opcode(rev, "program_calibration")>>, "program_calibration"),
          W(BE16(calibrate) \o BE16(fuse), "payload"),
          R(1, "response") >>
    \o set_programming_voltages_command(rev, FALSE)
    \o command_end
    \o << T("response", <<Ch_Y>>), Ret("none") >>

\* IProgrammingInterface.read_rom
read_rom(rev, c) ==
    command_start(-1, "")
    \o set_programming_voltages_command(rev, TRUE)
    \o << W(<<Opcode(rev, "read_rom")>>, "read_rom"),
          R(ProtoChips[c].rom_size * 2, "response") >>
    \o set_programming_voltages_command(rev, FALSE)
    \o command_end \o << Ret("response") >>

\* IProgrammingInterface.read_eeprom
read_eeprom(rev, c) ==
    command_start(-1, "")
    \o set_programming_voltages_command(rev, TRUE)
    \o << W(<<Opcode(rev, "read_eeprom")>>, "read_eeprom"),
          R(ProtoChips[c].eeprom_size, "response") >>
    \o set_programming_voltages_command(rev, FALSE)
    \o command_end \o << Ret("response") >>

\* IProgrammingInterface.read_config; ChipConfig.from_bytes unpacks 26 bytes
read_config(rev) ==
    command_start(-1, "")
    \o set_programming_voltages_command(rev, TRUE)
    \o << W(<<Opcode(rev, "read_config")>>, "read_config"),
          R(1, "ack"), T("ack", <<Ch_C>>),
          R(26, "response") >>
    \o set_programming_voltages_command(rev, FALSE)
    \o command_end \o << U("response", 26), Ret("response") >>

\* IProgrammingInterface.erase_chip
erase_chip(rev) ==
    command_start(-1, "")
    \o set_programming_voltages_command(rev, TRUE)
    \o << W(<<Opcode(rev, "erase_chip")>>, "erase_chip"), R(1, "response") >>
    \o set_programming_voltages_command(rev, FALSE)
    \o command_end
    \o << T("response", <<Ch_Y>>), Ret("none") >>

\* IConnection.echo(msg)
RECURSIVE EchoBytes(_)
EchoBytes(msg) ==
    IF msg = <<>> THEN <<>>
    ELSE << W(<<2>>, "echo"), W(<<Head(msg)>>, "payload"), RA(1) >> \o EchoBytes(Tail(msg))

\* echo without its command_end
echo_in_jump_table(msg) ==
    command_start(-1, "") \o EchoBytes(msg) \o << Ret("result") >>

echo(msg) ==
    command_start(-1, "") \o EchoBytes(msg) \o command_end \o << Ret("result") >>

\* Connection.wait_until_chip_in_socket / wait_until_chip_out_of_socket of
\* the revision's connection class (P18A: the literals 18 and 19)
wait_until_chip_in_socket(rev) ==
    command_start(Opcode(rev, "wait_until_chip_in_socket"), "wait_until_chip_in_socket")
    \o expect(<<Ch_A>>, FALSE) \o expect_forever(<<Ch_Y>>) \o << Ret("none") >>

wait_until_chip_out_of_socket(rev) ==
    command_start(Opcode(rev, "wait_until_chip_out_of_socket"), "wait_until_chip_out_of_socket")
    \o expect(<<Ch_A>>, FALSE) \o expect_forever(<<Ch_Y>>) \o << Ret("none") >>

\* Connection.programmer_version / programmer_protocol (P18A: literals 20, 21)
programmer_version(rev) ==
    command_start(Opcode(rev, "programmer_version"), "programmer_version")
    \o << R(1, "response") >> \o command_end \o << U("response", 1), Ret("response") >>

programmer_protocol(rev) ==
    command_start(Opcode(rev, "programmer_protocol"), "programmer_protocol")
    \o << R(4, "response") >> \o command_end \o << Ret("response") >>

\* connection.command_start() / command_end() called on their own, as the
\* voltage tests do
bare_command_start == command_start(-1, "") \o << Ret("none") >>

bare_command_end == command_end \o << Ret("none") >>

bare_set_programming_voltages_command(rev, on) ==
    set_programming_voltages_command(rev, on) \o << Ret("none") >>

(***************************************************************************)
(* The programmer.  Framing, voltages, program ROM / EEPROM / ID+fuses,    *)
(* the socket waits and the version queries are those of the mocked        *)
(* devices of the protocol tests; read-back, erase, calibration and fuse   *)
(* commit follow the protocol description.                                 *)
(***************************************************************************)
\* number of bytes the device thread is waiting for
DevNeed ==
    CASE dev.pc = "listen" -> 1
      [] dev.pc = "echo_arg" -> 1
      [] dev.pc = "vars_arg" -> 11
      [] dev.pc = "rom_size" -> 2
      [] dev.pc = "rom_packet" -> 32
      [] dev.pc = "eeprom_size" -> 2
      [] dev.pc = "eeprom_chunk" -> 2
      [] dev.pc = "eeprom_tail" -> 2
      [] dev.pc = "idfuses_arg" -> 24
      [] dev.pc = "commit_arg" -> 24
      [] dev.pc = "calibration_arg" -> 4
      [] dev.pc = "dead" -> 0

\* the device thread can complete its pending read()
DeviceCanRead == dev.pc # "dead" /\ port = "open" /\ Len(h2d) >= DevNeed

\* ProgramingVars.from_bytes: the checks that raise ValueError
VarsValid(settings) ==
    /\ UnBE16(SubSeq(settings, 1, 2)) # 0
    /\ UnBE16(SubSeq(settings, 1, 2)) % 32 = 0
    /\ UnBE16(SubSeq(settings, 3, 4)) % 32 = 0
    /\ settings[5] \in 1..13
    /\ settings[8] \in 0..4
    /\ settings[10] # 0

\* the guard of the three program handlers of the mock
DevCanProgram == dev.programing_vars # <<>> /\ dev.is_programming_voltages_on

\* 26 bytes of ChipConfig ('<HccccccccHHHHHHHH'): chip id, id, the seven fuse
\* words of the chip in the socket, calibration word 0x3444
ConfigBytes ==
    Rep(10, 255)
    \o LE16s([i \in 1..7 |-> IF i <= Len(dev.fuses) THEN dev.fuses[i] ELSE 65535])
    \o <<68, 52>>

\* Commands of the programmer that the mocked devices do not answer:
\* program calibration, read ROM / EEPROM / config, erase, commit fuses.
FirmwareCommands ==
    {10, 11, 12, 13, TableOpcode(revision, "erase_chip"),
     TableOpcode(revision, "program_18fxxxx_fuse")}

\* What the programmer does on such a command byte b: the memories are sent
\* back as they are, the configuration is 'C' and 26 bytes, erase blanks ROM
\* and EEPROM and answers 'Y'; calibration and commit first read their data.
FirmwareDispatch(b) ==
    LET stay(out) == << dev, out >>
        goto(pc) == << [dev EXCEPT !.pc = pc], <<>> >>
    IN  IF ~DevCanProgram THEN stay(<<Ch_N>>)
        ELSE CASE b = 10 -> goto("calibration_arg")
               [] b = 11 -> stay(dev.rom)
               [] b = 12 -> stay(dev.eeprom)
               [] b = 13 -> stay(<<Ch_C>> \o ConfigBytes)
               [] b = TableOpcode(revision, "erase_chip") ->
                     << [dev EXCEPT !.rom = BlankRom(chip), !.eeprom = BlankEeprom(chip)],
                        <<Ch_Y>> >>
               [] b = TableOpcode(revision, "program_18fxxxx_fuse") -> goto("commit_arg")

\* P018aMockedDeviceThread.listen_for_commands: one pass of the loop body,
\* up to the next read(); data is what read() returned (empty on timeout).
\* The result is <<new device state, bytes written>>.
DevDispatch(data) ==
    LET b == IF data = <<>> THEN -1 ELSE data[1]
        op(name) == TableOpcode(revision, name)
        stay(out) == << dev, out >>
        goto(pc) == << [dev EXCEPT !.pc = pc], <<>> >>
    IN  IF dev.in_jump_table
        THEN CASE b = 1 -> << [dev EXCEPT !.in_jump_table = FALSE], <<Ch_Q>> >>
               [] b = 2 -> goto("echo_arg")
               [] b = 3 -> goto("vars_arg")
               [] b = 4 -> << [dev EXCEPT !.is_programming_voltages_on = TRUE], <<Ch_V>> >>
               [] b = 5 -> << [dev EXCEPT !.is_programming_voltages_on = FALSE], <<Ch_v>> >>
               [] b = 6 -> << [dev EXCEPT !.is_programming_voltages_on = ~@], <<Ch_V>> >>
               [] b = 7 -> IF DevCanProgram THEN goto("rom_size") ELSE stay(<<Ch_N>>)
               [] b = 8 -> IF DevCanProgram THEN goto("eeprom_size") ELSE stay(<<Ch_N>>)
               [] b = 9 -> IF DevCanProgram THEN goto("idfuses_arg") ELSE stay(<<Ch_N>>)
               [] b \in FirmwareCommands -> FirmwareDispatch(b)
               [] b \in {op("wait_until_chip_in_socket"), op("wait_until_chip_out_of_socket")} ->
                     stay(<<Ch_A, Ch_Y>>)
               [] b = op("programmer_version") -> stay(<<3>>)
               [] b = op("programmer_protocol") ->
                     stay(IF revision = "P018" THEN <<Ch_P, Ch_0, 49, 56>>
                          ELSE <<Ch_P, 49, 56, Ch_A>>)
               [] OTHER -> stay(<<Ch_F>>)
        ELSE CASE b = 1 -> << [dev EXCEPT !.in_jump_table = FALSE], <<Ch_Q>> >>
               [] b = Ch_P -> << [dev EXCEPT !.in_jump_table = TRUE], <<Ch_P>> >>
               [] OTHER -> stay(<<Ch_O>>)

\* The handlers that first read a payload; data is what read() returned
\* (shorter than asked for after a timeout).  struct.unpack on a short
\* block raises struct.error, which ends the device thread.
DevPayload(data) ==
    LET listen(d, out) == << [d EXCEPT !.pc = "listen", !.todo = 0, !.want = 0, !.buf = <<>>], out >>
        store(mem, buf) == buf \o SubSeq(mem, Len(buf) + 1, Len(mem))
    IN  CASE dev.pc = "echo_arg" -> listen(dev, data)
          [] dev.pc = "vars_arg" ->
                IF Len(data) < 11 THEN << [dev EXCEPT !.pc = "dead"], <<>> >>
                ELSE IF VarsValid(data)
                     THEN listen([dev EXCEPT !.programing_vars = data], <<Ch_I>>)
                     ELSE listen(dev, <<Ch_N>>)
          [] dev.pc = "rom_size" ->
                IF Len(data) < 2 THEN << [dev EXCEPT !.pc = "dead"], <<>> >>
                ELSE LET words == UnBE16(data)
                     IN  IF words > UnBE16(SubSeq(dev.programing_vars, 1, 2)) \/ words = 0
                         THEN listen(dev, <<Ch_N>>)
                         ELSE IF (words * 2) \div 32 = 0
                              THEN listen(dev, <<Ch_Y, Ch_N>>)
                              ELSE << [dev EXCEPT !.pc = "rom_packet",
                                                  !.todo = (words * 2) \div 32,
                                                  !.want = words * 2, !.buf = <<>>],
                                      <<Ch_Y>> >>
          [] dev.pc = "rom_packet" ->
                LET buf == dev.buf \o data
                IN  IF dev.todo > 1
                    THEN << [dev EXCEPT !.todo = @ - 1, !.buf = buf], <<Ch_Y>> >>
                    ELSE IF Len(buf) = dev.want
                         THEN listen([dev EXCEPT !.rom = store(@, buf)], <<Ch_Y, Ch_P>>)
                         ELSE listen(dev, <<Ch_Y, Ch_N>>)
          [] dev.pc = "eeprom_size" ->
                IF Len(data) < 2 THEN << [dev EXCEPT !.pc = "dead"], <<>> >>
                ELSE LET size == UnBE16(data)
                     IN  IF size > UnBE16(SubSeq(dev.programing_vars, 3, 4)) \/ size = 0
                         THEN listen(dev, <<Ch_N>>)
                         ELSE << [dev EXCEPT !.pc = IF size \div 2 = 0 THEN "eeprom_tail"
                                                    ELSE "eeprom_chunk",
                                             !.todo = size \div 2,
                                             !.want = size, !.buf = <<>>],
                                 <<Ch_Y>> >>
          [] dev.pc = "eeprom_chunk" ->
                << [dev EXCEPT !.pc = IF dev.todo > 1 THEN "eeprom_chunk" ELSE "eeprom_tail",
                               !.todo = @ - 1, !.buf = @ \o data],
                   <<Ch_Y>> >>
          [] dev.pc = "eeprom_tail" ->
                IF Len(dev.buf) = dev.want
                THEN listen([dev EXCEPT !.eeprom = store(@, dev.buf)], <<Ch_P>>)
                ELSE listen(dev, <<Ch_N>>)
          [] dev.pc = "idfuses_arg" -> listen(dev, <<Ch_Y>>)

\* Commit and calibration, once their data has been read: 'Y'.
FirmwarePayload(data) ==
    << [dev EXCEPT !.pc = "listen", !.todo = 0, !.want = 0, !.buf = <<>>], <<Ch_Y>> >>

DevHandle(data) ==
    IF dev.pc = "listen" THEN DevDispatch(data)
    ELSE IF dev.pc \in {"commit_arg", "calibration_arg"} THEN FirmwarePayload(data)
    ELSE DevPayload(data)

\* the host is not about to write: it runs no command or waits in read()
HostBlocked ==
    \/ hostCmd = "none"
    \/ /\ hostScript # <<>>
       /\ Head(hostScript).k \in {"r", "ra"}
       /\ Len(d2h) < Head(hostScript).n

\* The device thread completes a read() and runs up to its next read().
DeviceRead ==
    /\ DeviceCanRead
    /\ LET r == DevHandle(SubSeq(h2d, 1, DevNeed))
       IN  /\ dev' = r[1]
           /\ d2h' = d2h \o r[2]
    /\ h2d' = SubSeq(h2d, DevNeed + 1, Len(h2d))
    /\ UNCHANGED <<offSession, hostVars, faults>>

\* The device thread's read() reaches its 5 s deadline with too few bytes.
DeviceReadTimeout ==
    /\ dev.pc # "dead"
    /\ port = "open"
    /\ Len(h2d) < DevNeed
    /\ HostBlocked
    /\ faults < MaxFaults
    /\ LET r == DevHandle(h2d)
       IN  /\ dev' = r[1]
           /\ d2h' = d2h \o r[2]
    /\ h2d' = <<>>
    /\ faults' = faults + 1
    /\ UNCHANGED <<offSession, hostVars>>

\* A byte of the device's answer is garbled or lost on the line.
LineFault ==
    /\ faults < MaxFaults
    /\ port = "open"
    /\ d2h # <<>>
    /\ \/ d2h' = <<0>> \o Tail(d2h)
       \/ d2h' = Tail(d2h)
    /\ faults' = faults + 1
    /\ UNCHANGED <<offSession, hostVars, h2d, devVars>>

(***************************************************************************)
(* The host: execution of a command, one I/O step at a time                *)
(***************************************************************************)
\* what a session is given, and what the constructor of its connection records
sessVars == <<revision, chip, mode, detected_programmer_version>>

EmptyRegs == [response |-> <<>>, expect |-> <<>>, ack |-> <<>>, result |-> <<>>]

\* Outcome of a call: cmd and error name the call and what it raised, value
\* and returns are what it handed back; arg is the length of its data
\* argument and msg the bytes given to echo; entered tells how the call found the programmer: "idle" or
\* "jump" when nothing was unread on the line and the programmer waited for
\* a command byte outside or inside its jump table, "dirty" otherwise.
NoOutcome ==
    [cmd |-> "none", error |-> "none", value |-> <<>>, returns |-> "none",
     arg |-> 0, msg |-> <<>>, entered |-> "dirty"]

LineState ==
    IF h2d = <<>> /\ d2h = <<>> /\ dev.pc = "listen"
    THEN (IF dev.in_jump_table THEN "jump" ELSE "idle")
    ELSE "dirty"

\* names of the commands whose opcode is recorded in opsSent
LoggedCommands ==
    ChipCommandNames \cup {"init_programming_vars", "cycle_programming_voltages",
                           "wait_until_chip_in_socket"}

\* struct.unpack('<H...'): little-endian words of a byte string
RECURSIVE UnLE16s(_)
UnLE16s(bytes) ==
    IF Len(bytes) < 2 THEN <<>>
    ELSE << bytes[1] + 256 * bytes[2] >> \o UnLE16s(SubSeq(bytes, 3, Len(bytes)))

\* rom_data without the calibration patch
rom_data_unpatched == RomImage(chip)

\* FlashData.rom_data / eeprom_data of the session's image
rom_data ==
    IF calibration_word # <<>> /\ ProtoChips[chip].cal_word
    THEN SubSeq(RomImage(chip), 1, Len(RomImage(chip)) - 2) \o calibration_word
    ELSE RomImage(chip)

eeprom_data == EepromImage(chip)

\* a command is entered: its checks passed and its I/O starts
BeginWith(name, script, arg) ==
    /\ hostCmd' = name
    /\ hostScript' = script
    /\ hostRegs' = EmptyRegs
    /\ hostOutcome' = [NoOutcome EXCEPT !.arg = arg, !.entered = LineState]
    /\ cmdLog' = <<>>

Begin(name, script) == BeginWith(name, script, 0)

\* a command raises before any I/O
RejectWith(name, error, arg) ==
    /\ hostCmd' = "none"
    /\ hostScript' = <<>>
    /\ hostRegs' = EmptyRegs
    /\ hostOutcome' = [NoOutcome EXCEPT !.cmd = name, !.error = error, !.arg = arg,
                                        !.entered = LineState]
    /\ cmdLog' = <<>>

Reject(name, error) == RejectWith(name, error, 0)

\* the argument checks of program_rom, then its I/O
call_program_rom(data) ==
    LET word_count == Len(data) \div 2
        rom_size == ProtoChips[chip].rom_size
    IN  IF rom_size < word_count
        THEN RejectWith("program_rom", "InvalidValueError", Len(data))
        ELSE IF ((word_count * 2) % 32) # 0
        THEN RejectWith("program_rom", "InvalidValueError", Len(data))
        ELSE BeginWith("program_rom", program_rom(revision, data), Len(data))

\* the argument checks of program_eeprom, then its I/O
call_program_eeprom(data) ==
    LET byte_count == Len(data)
    IN  IF ProtoChips[chip].eeprom_size < byte_count
        THEN RejectWith("program_eeprom", "InvalidValueError", Len(data))
        ELSE IF (byte_count % 2) # 0
        THEN RejectWith("program_eeprom", "InvalidValueError", Len(data))
        ELSE BeginWith("program_eeprom", program_eeprom(revision, data), Len(data))

\* the shape of the arguments of program_id_fuses, as recorded with the call:
\* 10 * len(pic_id) + len(fuses)
IdFusesShape(pic_id, fuses) == 10 * Len(pic_id) + Len(fuses)

\* the argument checks of program_id_fuses, then its I/O
call_program_id_fuses(pic_id, fuses) ==
    LET shape == IdFusesShape(pic_id, fuses)
        io == program_id_fuses(revision, chip, pic_id, fuses)
    IN  IF core_bits(chip) = 16
        THEN IF Len(pic_id) # 8 \/ Len(fuses) # 7
             THEN RejectWith("program_id_fuses", "InvalidValueError", shape)
             ELSE BeginWith("program_id_fuses", io, shape)
        ELSE IF Len(fuses) # 1 \/ Len(pic_id) # 4
             THEN RejectWith("program_id_fuses", "InvalidValueError", shape)
             ELSE BeginWith("program_id_fuses", io, shape)

\* the command in progress and its next I/O step
Running == hostCmd # "none" /\ port = "open"

Cur == Head(hostScript)

\* The command ends: it returns value (tag names what is returned) or raises.
Finish(error, value, tag) ==
    LET ok == error = "none"
        cli_verify == mode \in {"program", "verify"}
    IN  /\ hostCmd' = "none"
        /\ hostScript' = <<>>
        /\ hostOutcome' = [hostOutcome EXCEPT !.cmd = hostCmd, !.error = error,
                                              !.value = value, !.returns = tag]
        /\ iface' = IF hostCmd = "init_programming_vars"
                    THEN (IF ok THEN "ready" ELSE "failed")
                    ELSE iface
        /\ txn' = IF ok /\ tag = "FuseTransaction" THEN TRUE ELSE txn
        /\ staged' = IF ok /\ tag = "FuseTransaction" THEN TRUE ELSE staged
        /\ verified' =
              IF ok /\ cli_verify /\ hostCmd = "read_rom"
              THEN (IF value = rom_data THEN "passed" ELSE "failed")
              ELSE IF ok /\ cli_verify /\ hostCmd = "read_eeprom"
              THEN (IF value = eeprom_data THEN verified ELSE "failed")
              ELSE verified

\* serial_connection.write(...)
HostWrite ==
    /\ Running
    /\ Cur.k = "w"
    /\ h2d' = h2d \o Cur.data
    /\ cmdLog' = Append(cmdLog, Cur.tag)
    /\ opsSent' = IF mode # "api" /\ Cur.tag \in LoggedCommands
                  THEN Append(opsSent, Cur.tag) ELSE opsSent
    /\ hostScript' = Tail(hostScript)
    /\ UNCHANGED <<offSession, sessVars, port, iface, runPc, hostCmd, hostRegs, hostOutcome,
                   txn, verified, staged, snapshot, calibration_word, d2h, faults, devVars>>

\* IConnection.read(count): the requested bytes have arrived
HostRead ==
    /\ Running
    /\ Cur.k \in {"r", "ra"}
    /\ Len(d2h) >= Cur.n
    /\ hostRegs' = [hostRegs EXCEPT ![Cur.reg] =
                       IF Cur.k = "ra" THEN @ \o SubSeq(d2h, 1, Cur.n)
                       ELSE SubSeq(d2h, 1, Cur.n)]
    /\ d2h' = SubSeq(d2h, Cur.n + 1, Len(d2h))
    /\ hostScript' = Tail(hostScript)
    /\ UNCHANGED <<offSession, sessVars, port, iface, runPc, hostCmd, hostOutcome, txn, verified,
                   cmdLog, opsSent, staged, snapshot, calibration_word, h2d, faults, devVars>>

\* IConnection.read(count, timeout): the deadline passes first; what has
\* arrived is returned
HostReadTimeout ==
    /\ Running
    /\ Cur.k \in {"r", "ra"}
    /\ ~Cur.flag
    /\ Len(d2h) < Cur.n
    /\ ~DeviceCanRead
    /\ hostRegs' = [hostRegs EXCEPT ![Cur.reg] = IF Cur.k = "ra" THEN @ \o d2h ELSE d2h]
    /\ d2h' = <<>>
    /\ hostScript' = Tail(hostScript)
    /\ UNCHANGED <<offSession, sessVars, port, iface, runPc, hostCmd, hostOutcome, txn, verified,
                   cmdLog, opsSent, staged, snapshot, calibration_word, h2d, faults, devVars>>

\* the comparison of a response with the expected bytes
HostCheck ==
    /\ Running
    /\ Cur.k = "t"
    /\ IF hostRegs[Cur.reg] = Cur.want
       THEN /\ hostScript' = Tail(hostScript)
            /\ UNCHANGED <<hostCmd, hostOutcome, iface, txn, staged, verified, d2h>>
       ELSE /\ Finish("InvalidResponseError", <<>>, "none")
            /\ d2h' = IF Cur.flag THEN <<>> ELSE d2h
    /\ UNCHANGED <<offSession, hostRegs, sessVars, port, runPc, cmdLog, opsSent, snapshot,
                   calibration_word, h2d, faults, devVars>>

\* struct.unpack / ChipConfig.from_bytes on a response
HostUnpack ==
    /\ Running
    /\ Cur.k = "u"
    /\ IF Len(hostRegs[Cur.reg]) = Cur.n
       THEN /\ hostScript' = Tail(hostScript)
            /\ UNCHANGED <<hostCmd, hostOutcome, iface, txn, staged, verified>>
       ELSE Finish("struct.error", <<>>, "none")
    /\ UNCHANGED <<offSession, hostRegs, sessVars, port, runPc, cmdLog, opsSent, snapshot,
                   calibration_word, wireVars, devVars>>

\* the command returns
HostReturn ==
    /\ Running
    /\ Cur.k = "ret"
    /\ Finish("none",
              IF Cur.tag \in {"response", "result"} THEN hostRegs[Cur.tag] ELSE <<>>,
              Cur.tag)
    /\ UNCHANGED <<offSession, hostRegs, sessVars, port, runPc, cmdLog, opsSent, snapshot,
                   calibration_word, wireVars, devVars>>

(***************************************************************************)
(* Sessions: the connection, the programming interface, the commands of    *)
(* bin/picpro.py and direct calls of the interface                         *)
(***************************************************************************)
Revisions == {"P018", "P18A"}

Modes == {"api", "program", "verify", "erase", "read_chip_config",
          "dump_rom", "dump_eeprom", "dump_config"}

\* what the host leaves alone when a command is entered or a local step runs
CallFrame == <<offSession, sessVars, port, iface, txn, verified, opsSent, staged, snapshot,
               wireVars, devVars>>

\* the version byte the unit sends after 'B' when it is reset
ProgrammerVersion == 51

\* the constructor of the connection raised: no Connection object exists
ConstructorRaised == hostOutcome.cmd = "reset" /\ hostOutcome.error # "none"

\* Connection(port): serial.Serial opens the port and reset() begins: the
\* DTR line is raised and dropped, which resets the unit (it empties its
\* buffers and sends 'B' and its version), and two bytes are read.
OpenConnection ==
    /\ port = "closed"
    /\ port' = "open"
    /\ h2d' = <<>>
    /\ d2h' = << Ch_B, ProgrammerVersion >>
    /\ Begin("reset", << R(2, "response"), Probe(1) >>)
    /\ UNCHANGED <<offSession, sessVars, iface, runPc, txn, verified, opsSent,
                   staged, snapshot, calibration_word, faults, devVars>>

\* IConnection.reset after a read: with nothing read the first time, DTR
\* is raised again and two bytes are read again; a first byte 'B' is
\* success, and a second byte is recorded as the version of the unit.
reset ==
    /\ Running
    /\ Cur.k = "probe"
    /\ LET response == hostRegs.response
       IN  IF response = <<>> /\ Cur.n = 1
           THEN /\ h2d' = <<>>
                /\ d2h' = << Ch_B, ProgrammerVersion >>
                /\ hostScript' = << R(2, "response"), Probe(2) >>
                /\ UNCHANGED <<hostCmd, hostOutcome, iface, txn, staged, verified,
                               detected_programmer_version>>
           ELSE IF response # <<>> /\ response[1] = Ch_B
           THEN /\ Finish("none", <<>>, "none")
                /\ detected_programmer_version' =
                      IF Len(response) = 2 THEN response[2] ELSE detected_programmer_version
                /\ UNCHANGED <<h2d, d2h>>
           ELSE /\ Finish("InvalidResponseError", <<>>, "none")
                /\ UNCHANGED <<h2d, d2h, detected_programmer_version>>
    /\ UNCHANGED <<offSession, revision, chip, mode, hostRegs, port, runPc, cmdLog,
                   opsSent, snapshot, calibration_word, faults, devVars>>

\* connection.get_programming_interface(chip_info): the constructor of the
\* revision's interface.  IProgrammingInterface.__init__ calls
\* _init_programming_vars before any cmd_* attribute exists; the P018 class
\* overrides _init_programming_vars with the literal opcode 3.
get_programming_interface ==
    /\ port = "open"
    /\ iface = "none"
    /\ hostCmd = "none"
    /\ hostOutcome.error = "none"
    /\ IF revision = "P18A"
       THEN /\ iface' = "failed"
            /\ Reject("init_programming_vars", "AttributeError")
       ELSE /\ iface' = iface
            /\ Begin("init_programming_vars", init_programming_vars(chip, 3))
    /\ UNCHANGED <<offSession, sessVars, port, runPc, txn, verified, opsSent, staged, snapshot,
                   calibration_word, wireVars, devVars>>

\* program with the EEPROM written before the ROM
ProgramSteps_eeprom_first(c) ==
    << "read_config", "print_chip_config" >>
    \o (IF ProtoChips[c].cal_word THEN << "set_calibration_word" >> ELSE <<>>)
    \o (IF ProtoChips[c].flash_chip THEN << "erase_chip" >> ELSE <<>>)
    \o << "cycle_programming_voltages" >>
    \o (IF has_eeprom_attribute(c) THEN << "program_eeprom" >> ELSE <<>>)
    \o << "program_rom", "program_id_fuses", "read_rom" >>
    \o (IF has_eeprom_attribute(c) THEN << "read_eeprom" >> ELSE <<>>)
    \o << "program_18fxxxx_fuse" >>

\* The statements of the CLI commands, in order.
ProgramSteps(c) ==
    << "read_config", "print_chip_config" >>
    \o (IF ProtoChips[c].cal_word THEN << "set_calibration_word" >> ELSE <<>>)
    \o (IF ProtoChips[c].flash_chip THEN << "erase_chip" >> ELSE <<>>)
    \o << "cycle_programming_voltages", "program_rom" >>
    \o (IF has_eeprom_attribute(c) THEN << "program_eeprom" >> ELSE <<>>)
    \o << "program_id_fuses", "read_rom" >>
    \o (IF has_eeprom_attribute(c) THEN << "read_eeprom" >> ELSE <<>>)
    \o << "program_18fxxxx_fuse" >>

\* verify that erases the chip before it reads it back
VerifySteps_erasing(c) ==
    << "read_config", "erase_chip", "read_rom" >>
    \o (IF has_eeprom_attribute(c) THEN << "read_eeprom" >> ELSE <<>>)

VerifySteps(c) ==
    << "read_config" >>
    \o (IF ProtoChips[c].cal_word THEN << "set_calibration_word" >> ELSE <<>>)
    \o << "read_rom" >>
    \o (IF has_eeprom_attribute(c) THEN << "read_eeprom" >> ELSE <<>>)

DumpSteps(m) ==
    IF m = "dump_eeprom" THEN << "read_eeprom" >>
    ELSE IF m = "dump_rom" THEN << "read_rom" >>
    ELSE << "read_config" >>

EraseSteps == << "erase_chip" >>

ReadChipConfigSteps == << "read_config", "print_chip_config" >>

Steps ==
    CASE mode = "program" -> ProgramSteps(chip)
      [] mode = "verify" -> VerifySteps(chip)
      [] mode = "erase" -> EraseSteps
      [] mode = "read_chip_config" -> ReadChipConfigSteps
      [] mode \in {"dump_rom", "dump_eeprom", "dump_config"} -> DumpSteps(mode)
      [] OTHER -> <<>>

\* the body of the two with-blocks is at statement runPc and nothing raised so far
CanStep ==
    /\ port = "open"
    /\ iface = "ready"
    /\ hostCmd = "none"
    /\ hostOutcome.error = "none"
    /\ runPc <= Len(Steps)

\* FlashData.set_calibration_word
set_calibration_word(word) ==
    IF ~ProtoChips[chip].cal_word
    THEN Reject("set_calibration_word", "ValueError") /\ UNCHANGED calibration_word
    ELSE /\ calibration_word' = word
         /\ UNCHANGED <<hostCmd, hostScript, hostRegs, hostOutcome, cmdLog>>

\* one statement of a CLI command
DoStep(step) ==
    CASE step = "read_config" ->
            Begin("read_config", read_config(revision)) /\ UNCHANGED calibration_word
      [] step = "print_chip_config" ->
            \* _print_chip_config: decode_fuse_data(chip_config.fuses)
            LET fuses == UnLE16s(SubSeq(hostOutcome.value, 11, 24))
                decoded == decode_fuse_data(ProtoChips[chip].fuse_table, fuses)
            IN  /\ IF decoded.error # "none"
                   THEN Reject("print_chip_config", decoded.error)
                   ELSE UNCHANGED <<hostCmd, hostScript, hostRegs, hostOutcome, cmdLog>>
                /\ UNCHANGED calibration_word
      [] step = "set_calibration_word" ->
            \* flash_data.set_calibration_word(chip_config.calibrate.to_bytes(2, 'big'))
            set_calibration_word(<< hostOutcome.value[26], hostOutcome.value[25] >>)
      [] step = "erase_chip" ->
            Begin("erase_chip", erase_chip(revision)) /\ UNCHANGED calibration_word
      [] step = "cycle_programming_voltages" ->
            /\ Begin("cycle_programming_voltages", cycle_programming_voltages(revision))
            /\ UNCHANGED calibration_word
      [] step = "program_rom" -> call_program_rom(rom_data) /\ UNCHANGED calibration_word
      [] step = "program_eeprom" ->
            call_program_eeprom(eeprom_data) /\ UNCHANGED calibration_word
      [] step = "program_id_fuses" ->
            call_program_id_fuses(IdImage(chip), FuseImage(chip)) /\ UNCHANGED calibration_word
      [] step = "read_rom" ->
            Begin("read_rom", read_rom(revision, chip)) /\ UNCHANGED calibration_word
      [] step = "read_eeprom" ->
            Begin("read_eeprom", read_eeprom(revision, chip)) /\ UNCHANGED calibration_word
      [] step = "program_18fxxxx_fuse" ->
            \* if fuse_transaction: fuse_transaction.program_18fxxxx_fuse(...)
            /\ IF txn
               THEN Begin("program_18fxxxx_fuse", program_18fxxxx_fuse(revision, FuseImage(chip)))
               ELSE UNCHANGED <<hostCmd, hostScript, hostRegs, hostOutcome, cmdLog>>
            /\ UNCHANGED calibration_word

\* picpro program
program ==
    /\ mode = "program"
    /\ CanStep
    /\ DoStep(ProgramSteps(chip)[runPc])
    /\ runPc' = runPc + 1
    /\ UNCHANGED CallFrame

\* picpro verify
verify ==
    /\ mode = "verify"
    /\ CanStep
    /\ DoStep(VerifySteps(chip)[runPc])
    /\ runPc' = runPc + 1
    /\ UNCHANGED CallFrame

\* picpro dump <mem_type>
dump ==
    /\ mode \in {"dump_rom", "dump_eeprom", "dump_config"}
    /\ CanStep
    /\ DoStep(DumpSteps(mode)[runPc])
    /\ runPc' = runPc + 1
    /\ UNCHANGED CallFrame

\* picpro erase
erase ==
    /\ mode = "erase"
    /\ CanStep
    /\ DoStep(EraseSteps[runPc])
    /\ runPc' = runPc + 1
    /\ UNCHANGED CallFrame

\* picpro read_chip_config
read_chip_config ==
    /\ mode = "read_chip_config"
    /\ CanStep
    /\ DoStep(ReadChipConfigSteps[runPc])
    /\ runPc' = runPc + 1
    /\ UNCHANGED CallFrame

\* The with-blocks are left: IProgrammingInterface.__exit__ calls close(),
\* which does nothing, then IConnection.__exit__ closes the serial port.
\* A test closes the connection whenever it is done with it.
close ==
    /\ port = "open"
    /\ hostCmd = "none"
    /\ ~ConstructorRaised
    /\ \/ mode = "api"
       \/ iface = "failed"
       \/ iface = "ready" /\ (hostOutcome.error # "none" \/ runPc > Len(Steps))
    /\ port' = "released"
    /\ snapshot' = [closed |-> TRUE,
                    in_jump_table |-> dev.in_jump_table,
                    is_programming_voltages_on |-> dev.is_programming_voltages_on]
    /\ UNCHANGED <<offSession, sessVars, iface, runPc, hostCmd, hostScript, hostRegs, hostOutcome,
                   txn, verified, cmdLog, opsSent, staged, calibration_word, wireVars, devVars>>

(***************************************************************************)
(* Direct calls, as the protocol tests make them                           *)
(***************************************************************************)
\* argument lengths tried: next to 0, to 32 and to the capacity
NearLens(cap) ==
    { n \in 0..(cap + 2) : \E m \in {0, 32, cap} : n >= m - 1 /\ n <= m + 1 } \cup {cap + 2}

RomData(n) == [i \in 1..n |-> IF i % 2 = 1 THEN 40 ELSE 15]

EchoMsgs == { <<>>, <<88>>, <<1>>, <<88, 2>> }

\* a test may call the connection: nothing it called has raised
ApiConn ==
    /\ mode = "api"
    /\ port = "open"
    /\ hostCmd = "none"
    /\ hostOutcome.error = "none"
    /\ runPc <= MaxCalls

\* a test may call the programming interface
ApiChip == ApiConn /\ iface = "ready"

ApiFrame == <<CallFrame, calibration_word>>

ApiProgramRom ==
    /\ ApiChip
    /\ \E n \in NearLens(ProtoChips[chip].rom_size * 2) : call_program_rom(RomData(n))
    /\ runPc' = runPc + 1
    /\ UNCHANGED ApiFrame

ApiProgramEeprom ==
    /\ ApiChip
    /\ \E n \in NearLens(ProtoChips[chip].eeprom_size) : call_program_eeprom(Rep(n, 90))
    /\ runPc' = runPc + 1
    /\ UNCHANGED ApiFrame

ApiProgramIdFuses ==
    /\ ApiChip
    /\ \E pic_id \in {Rep(4, 0), Rep(8, 0)}, fuses \in {Rep(1, 16383), Rep(7, 65535)} :
          call_program_id_fuses(pic_id, fuses)
    /\ runPc' = runPc + 1
    /\ UNCHANGED ApiFrame

\* fuse_transaction.program_18fxxxx_fuse(fuses) on a transaction handed out
ApiCommitFuses ==
    /\ ApiChip
    /\ txn
    /\ Begin("program_18fxxxx_fuse", program_18fxxxx_fuse(revision, Rep(7, 65535)))
    /\ runPc' = runPc + 1
    /\ UNCHANGED ApiFrame

ApiProgramCalibration ==
    /\ ApiChip
    /\ Begin("program_calibration", program_calibration(revision, 13380, 16383))
    /\ runPc' = runPc + 1
    /\ UNCHANGED ApiFrame

ApiReadRom ==
    /\ ApiChip
    /\ Begin("read_rom", read_rom(revision, chip))
    /\ runPc' = runPc + 1
    /\ UNCHANGED ApiFrame

ApiReadEeprom ==
    /\ ApiChip
    /\ Begin("read_eeprom", read_eeprom(revision, chip))
    /\ runPc' = runPc + 1
    /\ UNCHANGED ApiFrame

ApiReadConfig ==
    /\ ApiChip
    /\ Begin("read_config", read_config(revision))
    /\ runPc' = runPc + 1
    /\ UNCHANGED ApiFrame

ApiEraseChip ==
    /\ ApiChip
    /\ Begin("erase_chip", erase_chip(revision))
    /\ runPc' = runPc + 1
    /\ UNCHANGED ApiFrame

ApiCyclePower ==
    /\ ApiChip
    /\ Begin("cycle_programming_voltages", cycle_programming_voltages(revision))
    /\ runPc' = runPc + 1
    /\ UNCHANGED ApiFrame

ApiSetVoltages ==
    /\ ApiChip
    /\ \E on \in BOOLEAN :
          Begin("set_programming_voltages_command",
                bare_set_programming_voltages_command(revision, on))
    /\ runPc' = runPc + 1
    /\ UNCHANGED ApiFrame

ApiCommandStart ==
    /\ ApiConn
    /\ Begin("command_start", bare_command_start)
    /\ runPc' = runPc + 1
    /\ UNCHANGED ApiFrame

ApiCommandEnd ==
    /\ ApiConn
    /\ Begin("command_end", bare_command_end)
    /\ runPc' = runPc + 1
    /\ UNCHANGED ApiFrame

\* a test may set the calibration word of its FlashData
ApiSetCalibrationWord ==
    /\ ApiConn
    /\ set_calibration_word(<<0, 0>>)
    /\ runPc' = runPc + 1
    /\ UNCHANGED CallFrame

ApiEcho ==
    /\ ApiConn
    /\ \E msg \in EchoMsgs :
         /\ hostCmd' = "echo"
         /\ hostScript' = echo(msg)
         /\ hostOutcome' = [NoOutcome EXCEPT !.arg = Len(msg), !.msg = msg,
                                             !.entered = LineState]
    /\ hostRegs' = EmptyRegs
    /\ cmdLog' = <<>>
    /\ runPc' = runPc + 1
    /\ UNCHANGED ApiFrame

ApiWaitChipIn ==
    /\ ApiConn
    /\ Begin("wait_until_chip_in_socket", wait_until_chip_in_socket(revision))
    /\ runPc' = runPc + 1
    /\ UNCHANGED ApiFrame

ApiWaitChipOut ==
    /\ ApiConn
    /\ Begin("wait_until_chip_out_of_socket", wait_until_chip_out_of_socket(revision))
    /\ runPc' = runPc + 1
    /\ UNCHANGED ApiFrame

ApiProgrammerVersion ==
    /\ ApiConn
    /\ Begin("programmer_version", programmer_version(revision))
    /\ runPc' = runPc + 1
    /\ UNCHANGED ApiFrame

ApiProgrammerProtocol ==
    /\ ApiConn
    /\ Begin("programmer_protocol", programmer_protocol(revision))
    /\ runPc' = runPc + 1
    /\ UNCHANGED ApiFrame

(***************************************************************************)
(* Spec: sessions with the programmer                                      *)
(***************************************************************************)
\* fuse words of the chip in the socket: blank, or with bits programmed
SocketFuses(c) ==
    IF core_bits(c) = 16 THEN { <<65535, 65535>>, <<65532, 65534>> }
    ELSE { FuseChips[ProtoChips[c].fuse_table].fuse_blank }

\* the programmer after reset, with chip c in its socket
DevFresh(c, fuses) ==
    [pc |-> "listen", in_jump_table |-> FALSE, is_programming_voltages_on |-> FALSE,
     programing_vars |-> <<>>, todo |-> 0, want |-> 0, buf |-> <<>>,
     rom |-> BlankRom(c), eeprom |-> BlankEeprom(c), fuses |-> fuses]

HostFresh ==
    /\ detected_programmer_version = -1
    /\ port = "closed"
    /\ iface = "none"
    /\ runPc = 1
    /\ hostCmd = "none"
    /\ hostScript = <<>>
    /\ hostRegs = EmptyRegs
    /\ hostOutcome = NoOutcome
    /\ txn = FALSE
    /\ verified = "none"
    /\ cmdLog = <<>>
    /\ opsSent = <<>>
    /\ staged = FALSE
    /\ snapshot = [closed |-> FALSE, in_jump_table |-> FALSE,
                   is_programming_voltages_on |-> FALSE]
    /\ calibration_word = <<>>
    /\ h2d = <<>>
    /\ d2h = <<>>
    /\ faults = 0

\* the session part of the state while only the codec is exercised
ProtoParked ==
    /\ revision = "P018"
    /\ chip = 1
    /\ mode = "api"
    /\ dev = DevFresh(1, <<16383>>)
    /\ HostFresh

\* the codec part of the state while sessions are exercised
FuseParked ==
    /\ fuseChip = 1
    /\ fuseCall = "none"
    /\ fuseArg = <<>>
    /\ fuseRet = Returned(<<>>)

\* no FlashData is being built
NotBuilt ==
    [built |-> FALSE, error |-> "none", is_swap_bytes |-> FALSE, rom_buffer |-> <<>>,
     eeprom_buffer |-> <<>>]

\* the flash data part of the state while something else is exercised
FlashParked ==
    /\ flashChip = 1
    /\ hex_file = {}
    /\ flashData = NotBuilt

\* a ProtocolInterface as its constructor leaves it: reset() has cleared
\* chip_info (0 stands for None) and fuses_set. call, error and wrote are
\* the name of the last call, what it raised and the bytes it wrote to the
\* port (data payloads left out); primed tells whether a program_id_fuses
\* was answered 'Y' since the last reset() and the last
\* init_programming_vars; calls counts the calls.
PIFresh ==
    [chip_info |-> 0, fuses_set |-> FALSE, call |-> "none", error |-> "none",
     wrote |-> <<>>, primed |-> FALSE, calls |-> 0]

PIParked == pi = PIFresh

\* no rom_is_blank call has been made
BlankFresh ==
    [pc |-> "idle", rom_size |-> 0, expected_b_bytes |-> 0, responses |-> <<>>,
     result |-> FALSE, in_jump_table |-> FALSE]

BlankParked == romBlank = BlankFresh

\* no program run of the CLI has been started
RunFresh ==
    [pc |-> "idle", chip |-> 0, pic_id |-> <<>>, fuses |-> <<>>,
     fuse_values |-> <<>>, stmt |-> 0, sent |-> <<>>, error |-> "none"]

RunParked == cliRun = RunFresh

\* no chip database has been read
CidFresh ==
    [files |-> <<>>, reader |-> 0, line |-> 0,
     block |-> [live |-> FALSE, keys |-> {}, chip_name |-> "", rom_size |-> 0],
     chip_entries |-> <<>>, error |-> "none"]

CidParked == cid = CidFresh

\* the mocked serial device as constructed, its thread at the top of
\* listen_for_commands
MockFresh ==
    [input_buffer |-> <<>>, output_buffer |-> <<>>, is_open |-> TRUE,
     in_jump_table |-> FALSE,
     host_pc |-> "idle", host_data |-> <<>>, host_loaded |-> <<>>,
     thread_pc |-> "listen", read_result |-> <<>>, thread_loaded |-> <<>>,
     data |-> <<>>, answer |-> <<>>,
     host_wrote |-> <<>>, thread_read |-> <<>>, thread_wrote |-> <<>>,
     host_read |-> <<>>, reads |-> 0, timeouts |-> 0]

MockParked == mock = MockFresh

\* no records have been merged
NotMerged ==
    [call |-> "none", records |-> <<>>, base_address |-> 0, error |-> "none", value |-> <<>>]

\* the hex file reader part of the state while something else is exercised
HexParked ==
    /\ merged = NotMerged
    /\ file = <<>>
    /\ lineNo = 0
    /\ ext_address = 0
    /\ records = <<>>
    /\ eof = FALSE
    /\ hexRaised = "none"

Init ==
    /\ FuseParked
    /\ FlashParked
    /\ HexParked
    /\ PIParked
    /\ MockParked
    /\ CidParked
    /\ RunParked
    /\ BlankParked
    /\ revision \in Revisions
    /\ chip \in ProtoChipIds
    /\ mode \in Modes
    /\ \E fuses \in SocketFuses(chip) : dev = DevFresh(chip, fuses)
    /\ HostFresh

Next ==
    \/ OpenConnection
    \/ reset
    \/ get_programming_interface
    \/ program
    \/ verify
    \/ dump
    \/ erase
    \/ read_chip_config
    \/ close
    \/ ApiProgramRom
    \/ ApiProgramEeprom
    \/ ApiProgramIdFuses
    \/ ApiCommitFuses
    \/ ApiProgramCalibration
    \/ ApiReadRom
    \/ ApiReadEeprom
    \/ ApiReadConfig
    \/ ApiEraseChip
    \/ ApiCyclePower
    \/ ApiSetVoltages
    \/ ApiCommandStart
    \/ ApiCommandEnd
    \/ ApiSetCalibrationWord
    \/ ApiEcho
    \/ ApiWaitChipIn
    \/ ApiWaitChipOut
    \/ ApiProgrammerVersion
    \/ ApiProgrammerProtocol
    \/ HostWrite
    \/ HostRead
    \/ HostReadTimeout
    \/ HostCheck
    \/ HostUnpack
    \/ HostReturn
    \/ DeviceRead
    \/ DeviceReadTimeout
    \/ LineFault

Spec == Init /\ [][Next]_vars

(***************************************************************************)
(* SpecFuse: the codec applied to bounded inputs                           *)
(***************************************************************************)
InitFuse ==
    /\ fuseChip \in FuseChipIds
    /\ fuseCall = "none"
    /\ fuseArg = <<>>
    /\ fuseRet = Returned(<<>>)
    /\ FlashParked
    /\ HexParked
    /\ ProtoParked
    /\ PIParked
    /\ MockParked
    /\ CidParked
    /\ RunParked
    /\ BlankParked

FuseEncode ==
    /\ fuseCall = "none"
    /\ \E s \in FullSettings(fuseChip) :
          /\ fuseCall' = "encode"
          /\ fuseArg' = s
          /\ fuseRet' = encode_fuse_data(fuseChip, s)
    /\ UNCHANGED <<fuseChip, offFuse>>

FuseDecode ==
    /\ fuseCall = "none"
    /\ \E w \in FuseWordLists(fuseChip) :
          /\ fuseCall' = "decode"
          /\ fuseArg' = w
          /\ fuseRet' = decode_fuse_data(fuseChip, w)
    /\ UNCHANGED <<fuseChip, offFuse>>

FuseRoundTrip ==
    /\ fuseCall = "none"
    /\ \E s \in FullSettings(fuseChip) :
          /\ fuseCall' = "roundtrip"
          /\ fuseArg' = s
          /\ fuseRet' = LET words == encode_fuse_data(fuseChip, s)
                        IN  IF words.error # "none" THEN words
                            ELSE decode_fuse_data(fuseChip, words.value)
    /\ UNCHANGED <<fuseChip, offFuse>>

\* encode_fuse_data on a mapping that may be partial, in any order, and
\* may name undeclared fuses or settings
FuseEncodeMapping ==
    /\ fuseCall = "none"
    /\ \E items \in FuseItems(fuseChip) :
          /\ fuseCall' = "encode_mapping"
          /\ fuseArg' = items
          /\ fuseRet' = encode_fuse_items(fuseChip, items)
    /\ UNCHANGED <<fuseChip, offFuse>>

\* FlashData.fuse_data on the fuse words of a hex file, with overrides
FuseData ==
    /\ fuseCall = "none"
    /\ \E w \in HexFuseWords(fuseChip), o \in FuseOverrides(fuseChip) :
          /\ fuseCall' = "fuse_data"
          /\ fuseArg' = [fuse_values |-> w, fuses |-> o]
          /\ fuseRet' = fuse_data(fuseChip, w, o)
    /\ UNCHANGED <<fuseChip, offFuse>>

NextFuse ==
    \/ FuseEncode
    \/ FuseDecode
    \/ FuseRoundTrip
    \/ FuseEncodeMapping
    \/ FuseData

SpecFuse == InitFuse /\ [][NextFuse]_vars

(***************************************************************************)
(* SpecFlash: FlashData built from bounded hex files                       *)
(***************************************************************************)
\* Data bytes a hex file may hold, and how many of them.
MaxHexBytes == 2

HexBytes == {0, 5, 64}

\* Chips of the FlashData checks: cores bit14_g, bit16_a, bit12_a and bit14_h.
FlashChips ==
    << [core_type |-> 3, rom_size |-> 4, eeprom_size |-> 4],
       [core_type |-> 1, rom_size |-> 4, eeprom_size |-> 4],
       [core_type |-> 4, rom_size |-> 4, eeprom_size |-> 0],
       [core_type |-> 12, rom_size |-> 4, eeprom_size |-> 4] >>

FlashChipIds == 1..Len(FlashChips)

flash_core_bits(c) == get_core_bits(FlashChips[c].core_type)

\* the absent max_size of _tobinarray_really
None == -1

\* FlashData.__init__: the memory map of the core family
MemoryMapping(c) ==
    LET rom_size_bytes == FlashChips[c].rom_size * 2
        eeprom_len == IF FlashChips[c].eeprom_size > 256 THEN FlashChips[c].eeprom_size ELSE 256
    IN  IF flash_core_bits(c) = 16
        THEN [rom |-> [start |-> 0, end |-> rom_size_bytes],
              eeprom |-> [start |-> 61440, end |-> 61696],
              config |-> [start |-> 3145728, end |-> 3145742]]
        ELSE IF flash_core_bits(c) = 12
        THEN [rom |-> [start |-> 0, end |-> rom_size_bytes],
              eeprom |-> [start |-> 16896, end |-> 16896 + eeprom_len],
              config |-> [start |-> rom_size_bytes, end |-> 8192]]
        ELSE [rom |-> [start |-> 0, end |-> rom_size_bytes],
              eeprom |-> [start |-> 16896, end |-> 16896 + eeprom_len],
              config |-> [start |-> 16384, end |-> 16400]]

\* hex_file._buf.get(address)
HexGet(hex, address) ==
    IF \E p \in hex : p[1] = address
    THEN (CHOOSE p \in hex : p[1] = address)[2]
    ELSE None

\* FlashData._calculate_rom_blank_word
rom_blank_word(c) == 2 ^ flash_core_bits(c) - 1

\* FlashData._tobinarray_really(start, end, pad_callback, max_size): the
\* buffer, or ValueError for a non-zero byte at an index above max_size or
\* for a buffer of odd length.  The pad callbacks repeat a pattern of one
\* or two bytes: pad holds the pattern.
tobinarray_really(hex, start, end, pad, max_size) ==
    LET len == IF max_size = None \/ end - start < max_size THEN end - start ELSE max_size
        over == /\ max_size # None
                /\ \E p \in hex : /\ p[1] \in start..(end - 1)
                                  /\ p[2] # 0
                                  /\ p[1] - start > max_size
    IN  IF over \/ len % 2 # 0 THEN [error |-> "ValueError", data |-> <<>>]
        ELSE [error |-> "none",
              data |-> [i \in 1..len |->
                          IF HexGet(hex, start + i - 1) # None
                          THEN HexGet(hex, start + i - 1)
                          ELSE pad[((i - 1) % Len(pad)) + 1]]]

\* FlashData._is_little_endian from ROM word x on: "yes", "no" or
\* "ValueError" (a word that fits the core in neither byte order)
RECURSIVE is_little_endian_from(_, _, _)
is_little_endian_from(c, data, x) ==
    IF x + 2 >= Len(data) THEN "no"
    ELSE LET be_ok == data[x + 1] * 256 + data[x + 2] <= rom_blank_word(c)
             le_ok == data[x + 2] * 256 + data[x + 1] <= rom_blank_word(c)
         IN  IF be_ok /\ ~le_ok THEN "no"
             ELSE IF le_ok /\ ~be_ok THEN "yes"
             ELSE IF ~(le_ok \/ be_ok) THEN "ValueError"
             ELSE is_little_endian_from(c, data, x + 2)

is_little_endian(c, data) ==
    IF flash_core_bits(c) = 16 THEN "yes" ELSE is_little_endian_from(c, data, 0)

\* tools.swab_bytes
swab_bytes(data) ==
    [i \in 1..Len(data) |-> IF i % 2 = 1 THEN data[i + 1] ELSE data[i - 1]]

\* FlashData.__init__ without fuses and id: _filter_records, then process.
\* The config, fuse and id buffers have no max_size and ranges of even
\* length, so _tobinarray_really does not raise for them.  Without a core
\* width (None) the shift of _calculate_rom_blank_word raises TypeError.
BuildFlashData(c, hex) ==
    LET map == MemoryMapping(c)
        blank == rom_blank_word(c)
        RomPad == << blank % 256, blank \div 256 >>
        EepromPad == << 255 >>
        rom == tobinarray_really(hex, map.rom.start, map.rom.end, RomPad,
                                 FlashChips[c].rom_size * 2)
        eeprom == tobinarray_really(hex, map.eeprom.start, map.eeprom.end, EepromPad,
                                    FlashChips[c].eeprom_size)
        little == is_little_endian(c, rom.data)
    IN  IF flash_core_bits(c) = 0
        THEN [NotBuilt EXCEPT !.built = TRUE, !.error = "TypeError"]
        ELSE IF rom.error # "none" \/ eeprom.error # "none" \/ little = "ValueError"
        THEN [NotBuilt EXCEPT !.built = TRUE, !.error = "ValueError"]
        ELSE IF little = "yes"
        THEN [built |-> TRUE, error |-> "none", is_swap_bytes |-> TRUE,
              rom_buffer |-> swab_bytes(rom.data),
              eeprom_buffer |-> swab_bytes(eeprom.data)]
        ELSE [built |-> TRUE, error |-> "none", is_swap_bytes |-> FALSE,
              rom_buffer |-> rom.data, eeprom_buffer |-> eeprom.data]

\* Addresses at which the hex files hold data: the first bytes and the last
\* byte of the ROM and of the EEPROM, and the addresses at and after their
\* ends.
HexAddresses(c) ==
    LET r == FlashChips[c].rom_size * 2
        e == FlashChips[c].eeprom_size
        E == MemoryMapping(c).eeprom.start
    IN  {0, 1, 2, r - 1, r, r + 1, 2 * r} \cup {E + e, E + e + 1, E + 255, E + 256}
        \cup (IF e > 0 THEN {E, E + 1, E + 2, E + e - 1} ELSE {})

InitFlash ==
    /\ flashChip \in FlashChipIds
    /\ hex_file = {}
    /\ flashData = NotBuilt
    /\ FuseParked
    /\ HexParked
    /\ ProtoParked
    /\ PIParked
    /\ MockParked
    /\ CidParked
    /\ RunParked
    /\ BlankParked

\* one more data byte in the hex file
HexRecord ==
    /\ ~flashData.built
    /\ Cardinality(hex_file) < MaxHexBytes
    /\ \E a \in HexAddresses(flashChip), b \in HexBytes :
          /\ \A p \in hex_file : p[1] # a
          /\ hex_file' = hex_file \cup {<<a, b>>}
    /\ UNCHANGED <<flashChip, flashData, offFlash>>

\* FlashData(chip_info_entry, hex_file)
FlashDataInit ==
    /\ ~flashData.built
    /\ flashData' = BuildFlashData(flashChip, hex_file)
    /\ UNCHANGED <<flashChip, hex_file, offFlash>>

NextFlash == HexRecord \/ FlashDataInit

SpecFlash == InitFlash /\ [][NextFlash]_vars

(***************************************************************************)
(* The hex file reader: HexFileReader.__init__, one line of the file at a  *)
(* time. A line is the sequence of its characters, "\n" included.          *)
(***************************************************************************)
MaxHexLines == 3

HexDigits == << "0", "1", "2", "3", "4", "5", "6", "7", "8", "9",
                "A", "B", "C", "D", "E", "F" >>

IsHexDigit(ch) == \E i \in DOMAIN HexDigits : HexDigits[i] = ch

\* int(text, 16) of a string of hex digits
RECURSIVE int16(_)
int16(text) ==
    IF text = <<>> THEN 0
    ELSE 16 * int16(SubSeq(text, 1, Len(text) - 1))
         + (CHOOSE v \in 0..15 : HexDigits[v + 1] = text[Len(text)])

\* bytearray.fromhex(data_str) of an even number of hex digits
RECURSIVE fromhex(_)
fromhex(text) ==
    IF Len(text) < 2 THEN <<>>
    ELSE << int16(SubSeq(text, 1, 2)) >> \o fromhex(SubSeq(text, 3, Len(text)))

RECURSIVE BitOr(_, _)
BitOr(a, b) ==
    IF a = 0 THEN b
    ELSE IF b = 0 THEN a
    ELSE (IF a % 2 = 1 \/ b % 2 = 1 THEN 1 ELSE 0) + 2 * BitOr(a \div 2, b \div 2)

\* the line without the "\n" that '$' and '.' of the regular expressions
\* leave out
Chomp(line) ==
    IF line # <<>> /\ line[Len(line)] = "\n" THEN SubSeq(line, 1, Len(line) - 1) ELSE line

\* hex_record_regexp.match(line): ^:[0-9a-fA-F]+$
hex_record_regexp(line) ==
    LET t == Chomp(line)
    IN  /\ Len(t) >= 2
        /\ t[1] = ":"
        /\ \A i \in 2..Len(t) : IsHexDigit(t[i])

\* hex_record_chopper.match(line): ^:(..)(....)(..)(.*)(..)$
hex_record_chopper(line) ==
    LET t == Chomp(line)
    IN  IF Len(t) >= 11
        THEN [matched      |-> TRUE,
              length_str   |-> SubSeq(t, 2, 3),
              address_str  |-> SubSeq(t, 4, 7),
              type_str     |-> SubSeq(t, 8, 9),
              data_str     |-> SubSeq(t, 10, Len(t) - 2),
              checksum_str |-> SubSeq(t, Len(t) - 1, Len(t))]
        ELSE [matched      |-> FALSE, length_str |-> <<>>, address_str |-> <<>>,
              type_str     |-> <<>>, data_str |-> <<>>, checksum_str |-> <<>>]

\* the loop over range(1, len(line) - 4, 2): the sum of int(line[x:x + 2], 16)
RECURSIVE checksum_sum(_, _)
checksum_sum(line, x) ==
    IF x >= Len(line) - 4 THEN 0
    ELSE (int16(SubSeq(line, x + 1, x + 2)) + checksum_sum(line, x + 2)) % 256

RaisedWith(st, error) == [st EXCEPT !.error = error]

\* the body of the loop without the test of eof
parse_line_after_eof(line, st) ==
    LET chop == hex_record_chopper(line)
        length == int16(chop.length_str)
        address == int16(chop.address_str)
        record_type == int16(chop.type_str)
        data == fromhex(chop.data_str)
        checksum == int16(chop.checksum_str)
        checksum_test == (256 - checksum_sum(line, 1)) % 256
    IN  IF hex_record_regexp(line)
        THEN IF ~chop.matched THEN RaisedWith(st, "InvalidRecordError")
             ELSE IF Len(chop.data_str) % 2 = 1 THEN RaisedWith(st, "ValueError")
             ELSE IF length # Len(data) THEN RaisedWith(st, "InvalidRecordError")
             ELSE IF checksum_test # checksum THEN RaisedWith(st, "InvalidChecksumError")
             ELSE IF record_type = 0
             THEN [st EXCEPT !.records = Append(@, << BitOr(address, st.ext_address), data >>)]
             ELSE IF record_type = 1 THEN [st EXCEPT !.eof = TRUE]
             ELSE IF record_type \in {2, 4} /\ Len(data) # 2 THEN RaisedWith(st, "struct.error")
             ELSE IF record_type = 2
             THEN [st EXCEPT !.ext_address = (256 * data[1] + data[2]) * Pow2(16)]
             ELSE IF record_type = 4
             THEN [st EXCEPT !.ext_address = (256 * data[1] + data[2]) * Pow2(4)]
             ELSE RaisedWith(st, "InvalidRecordError")
        ELSE IF Len(line) # 0 THEN RaisedWith(st, "InvalidRecordError")
        ELSE st

\* the body of the loop "for line in file" for one line
parse_line(line, st) ==
    IF hex_record_regexp(line) /\ st.eof
    THEN RaisedWith(st, "InvalidRecordError")
    ELSE parse_line_after_eof(line, st)

\* the text of a byte, of a word and of a byte string, two digits a byte
ByteText(b) == << HexDigits[(b \div 16) + 1], HexDigits[(b % 16) + 1] >>

RECURSIVE BytesText(_)
BytesText(bytes) ==
    IF bytes = <<>> THEN <<>> ELSE ByteText(Head(bytes)) \o BytesText(Tail(bytes))

RECURSIVE SumBytes(_)
SumBytes(bytes) == IF bytes = <<>> THEN 0 ELSE Head(bytes) + SumBytes(Tail(bytes))

\* the bytes of a record line in front of its checksum
RecordHead(length, address, type, data) ==
    << length, address \div 256, address % 256, type >> \o data

\* a record line with the checksum given; skew = 0 for the right checksum
RecordLine(length, address, type, data, skew, newline) ==
    LET head == RecordHead(length, address, type, data)
    IN  << ":" >> \o BytesText(head)
        \o ByteText((512 - (SumBytes(head) % 256) + skew) % 256)
        \o (IF newline THEN << "\n" >> ELSE <<>>)

\* the lines hex files are made of: data records, EOF records, extended
\* address records of type 2 and 4, records with a wrong checksum, a wrong
\* length or an unknown type, each ending in "\n"; records that end the
\* file without "\n"; a blank line; lines too short or with an odd number
\* of digits
EndedLines ==
    { RecordLine(1, 16, 0, <<5>>, 0, TRUE),
      RecordLine(2, 1, 0, <<64, 0>>, 0, TRUE),
      RecordLine(0, 0, 1, <<>>, 0, TRUE),
      RecordLine(2, 0, 2, <<0, 1>>, 0, TRUE),
      RecordLine(2, 0, 4, <<0, 1>>, 0, TRUE),
      RecordLine(1, 16, 0, <<5>>, 1, TRUE),
      RecordLine(2, 16, 0, <<5>>, 0, TRUE),
      RecordLine(0, 0, 3, <<>>, 0, TRUE),
      RecordLine(1, 0, 2, <<1>>, 0, TRUE),
      << ":", "0", "0", "F", "F", "\n" >>,
      << ":", "0", "0", "0", "0", "0", "0", "0", "0", "0", "0", "0", "\n" >>,
      << "\n" >> }

UnendedLines ==
    { RecordLine(0, 0, 1, <<>>, 0, FALSE),
      RecordLine(2, 2, 0, <<7, 0>>, 0, FALSE),
      RecordLine(1, 16, 0, <<5>>, 5, FALSE) }

\* HexFileReader(file_name) opens the file
InitHex ==
    /\ file \in UNION { [1..n -> EndedLines \cup UnendedLines] : n \in 0..MaxHexLines }
    /\ \A i \in DOMAIN file : file[i] \in UnendedLines => i = Len(file)
    /\ lineNo = 0
    /\ ext_address = 0
    /\ records = <<>>
    /\ eof = FALSE
    /\ hexRaised = "none"
    /\ merged = NotMerged
    /\ FuseParked
    /\ FlashParked
    /\ ProtoParked
    /\ PIParked
    /\ MockParked
    /\ CidParked
    /\ RunParked
    /\ BlankParked

\* one turn of "for line in file"
ReadLine ==
    /\ hexRaised = "none"
    /\ lineNo < Len(file)
    /\ LET st == parse_line(file[lineNo + 1],
                            [ext_address |-> ext_address, records |-> records,
                             eof |-> eof, error |-> "none"])
       IN  /\ ext_address' = st.ext_address
           /\ records' = st.records
           /\ eof' = st.eof
           /\ hexRaised' = st.error
    /\ lineNo' = lineNo + 1
    /\ UNCHANGED <<file, merged, offHex>>

NextHex == ReadLine

SpecHex == InitHex /\ [][NextHex]_vars

(***************************************************************************)
(* Merging records into a buffer: tools.merge_records and                  *)
(* HexFileReader.merge                                                     *)
(***************************************************************************)
MaxRecords == 2

\* default_data[mark:point] of Python: empty when point <= mark
PySlice(data, mark, point) ==
    IF point <= mark THEN <<>>
    ELSE SubSeq(data, mark + 1, IF point < Len(data) THEN point ELSE Len(data))

\* the loop of merge_records from record n on; st = [result_list, mark, error]
RECURSIVE MergeFrom(_, _, _, _, _)
MergeFrom(recs, default_data, base_address, n, st) ==
    IF n > Len(recs)
    THEN (IF st.mark < Len(default_data)
          THEN [st EXCEPT !.result_list = @ \o PySlice(default_data, st.mark, Len(default_data))]
          ELSE st)
    ELSE LET record == recs[n]
             point == record[1] - base_address
             filled == IF st.mark # point
                       THEN st.result_list \o PySlice(default_data, st.mark, point)
                       ELSE st.result_list
         IN  IF record[1] < base_address THEN [st EXCEPT !.error = "IndexError"]
             ELSE IF record[1] + Len(record[2]) > base_address + Len(default_data)
             THEN [st EXCEPT !.error = "IndexError"]
             ELSE MergeFrom(recs, default_data, base_address, n + 1,
                            [st EXCEPT !.result_list = filled \o record[2],
                                       !.mark = point + Len(record[2])])

merge_records(recs, default_data, base_address) ==
    LET st == MergeFrom(recs, default_data, base_address, 1,
                        [result_list |-> <<>>, mark |-> 0, error |-> "none"])
    IN  IF st.error # "none" THEN Raised(st.error) ELSE Returned(st.result_list)

\* the loop of HexFileReader.merge from record n on
RECURSIVE MergeInPlaceFrom(_, _, _)
MergeInPlaceFrom(recs, data_list, n) ==
    IF n > Len(recs) THEN Returned(data_list)
    ELSE LET address == recs[n][1]
             data == recs[n][2]
         IN  IF address + Len(data) > Len(data_list) THEN Raised("IndexError")
             ELSE MergeInPlaceFrom(recs,
                     [i \in DOMAIN data_list |->
                        IF i > address /\ i <= address + Len(data)
                        THEN data[i - address] ELSE data_list[i]],
                     n + 1)

\* HexFileReader.merge(data_str) of a reader whose records are recs
merge(recs, data_str) == MergeInPlaceFrom(recs, data_str, 1)

\* the buffer records are merged into, and the records tried
DefaultData == << 10, 11, 12, 13 >>

MergeRecordPool == { <<a, d>> : a \in 0..5, d \in { <<1>>, <<2, 3>> } }

RecordLists == UNION { [1..n -> MergeRecordPool] : n \in 0..MaxRecords }

InitMerge ==
    /\ HexParked
    /\ FuseParked
    /\ FlashParked
    /\ ProtoParked
    /\ PIParked
    /\ MockParked
    /\ CidParked
    /\ RunParked
    /\ BlankParked

MergeRecords ==
    /\ merged.call = "none"
    /\ \E recs \in RecordLists, base \in 0..1 :
          LET ret == merge_records(recs, DefaultData, base)
          IN  merged' = [call |-> "merge_records", records |-> recs, base_address |-> base,
                         error |-> ret.error, value |-> ret.value]
    /\ UNCHANGED <<file, lineNo, ext_address, records, eof, hexRaised,
                   offHex>>

ReaderMerge ==
    /\ merged.call = "none"
    /\ \E recs \in RecordLists :
          LET ret == merge(recs, DefaultData)
          IN  merged' = [call |-> "merge", records |-> recs, base_address |-> 0,
                         error |-> ret.error, value |-> ret.value]
    /\ UNCHANGED <<file, lineNo, ext_address, records, eof, hexRaised,
                   offHex>>

NextMerge == MergeRecords \/ ReaderMerge

SpecMerge == InitMerge /\ [][NextMerge]_vars

(***************************************************************************)
(* ProtocolInterface (picpro/ProtocolInterface.py): its guards and what    *)
(* its commands write. The programmer either answers a command as the      *)
(* command expects (ok) or does not answer the first byte of               *)
(* _command_start; answer is the result byte of the command.               *)
(***************************************************************************)
MaxPICalls == 4

PIChips == 1..2

\* The commands: cmd is the command number; guard tells where
\* _need_chip_info is called: "first" at the top of the command,
\* "voltages" only inside _set_programming_voltages_command after
\* _command_start, "none" nowhere; voltages tells whether the command
\* switches the programming voltages; need_fuses whether it calls
\* _need_fuses.
PICommand(name, cmd, guard, voltages, need_fuses) ==
    [name |-> name, cmd |-> cmd, guard |-> guard, voltages |-> voltages,
     need_fuses |-> need_fuses]

PICommands ==
    { PICommand("cycle_programming_voltages", 6, "first", FALSE, FALSE),
      PICommand("program_rom", 7, "first", TRUE, FALSE),
      PICommand("program_eeprom", 8, "first", TRUE, FALSE),
      PICommand("program_id_fuses", 9, "first", TRUE, FALSE),
      PICommand("program_calibration", 10, "first", TRUE, FALSE),
      PICommand("read_rom", 11, "first", TRUE, FALSE),
      PICommand("read_eeprom", 12, "first", TRUE, FALSE),
      PICommand("read_config", 13, "voltages", TRUE, FALSE),
      PICommand("erase_chip", 14, "first", TRUE, FALSE),
      PICommand("rom_is_blank", 15, "first", FALSE, FALSE),
      PICommand("eeprom_is_blank", 16, "none", FALSE, FALSE),
      PICommand("program_18fxxxx_fuse", 17, "first", FALSE, TRUE),
      PICommand("program_debug_vector", 22, "first", FALSE, FALSE),
      PICommand("read_debug_vector", 23, "first", FALSE, FALSE) }

\* a call ends: what it raised and what it wrote
PIEnds(st, name, error, wrote) ==
    [st EXCEPT !.call = name, !.error = error, !.wrote = wrote, !.calls = @ + 1]

\* ProtocolInterface.reset: no byte is written, the DTR line is toggled
pi_reset(st) ==
    [PIEnds(st, "reset", "none", <<>>) EXCEPT !.chip_info = 0, !.fuses_set = FALSE,
                                              !.primed = FALSE]

\* ProtocolInterface.init_programming_vars(chip_info)
pi_init_programming_vars(st, c, ok, answer) ==
    IF ~ok
    THEN [PIEnds(st, "init_programming_vars", "InvalidResponseError", <<1>>)
            EXCEPT !.primed = FALSE]
    ELSE [PIEnds(st, "init_programming_vars", "none", <<1, Ch_P, 3, 1>>)
            EXCEPT !.chip_info = IF answer = Ch_I THEN c ELSE 0, !.primed = FALSE]

\* a chip command
pi_command(st, c, ok, answer) ==
    IF c.guard = "first" /\ st.chip_info = 0
    THEN PIEnds(st, c.name, "InvalidCommandSequenceError", <<>>)
    ELSE IF c.need_fuses /\ ~st.fuses_set
    THEN PIEnds(st, c.name, "InvalidCommandSequenceError", <<>>)
    ELSE IF ~ok
    THEN PIEnds(st, c.name, "InvalidResponseError", <<1>>)
    ELSE IF c.voltages /\ st.chip_info = 0
    THEN PIEnds(st, c.name, "InvalidCommandSequenceError", <<1, Ch_P>>)
    ELSE [PIEnds(st, c.name, "none",
                 IF c.voltages THEN <<1, Ch_P, 4, c.cmd, 5, 1>> ELSE <<1, Ch_P, c.cmd, 1>>)
            EXCEPT !.fuses_set = IF c.name = "program_id_fuses" /\ answer = Ch_Y
                                 THEN TRUE ELSE @,
                   !.primed = IF c.name = "program_id_fuses" /\ answer = Ch_Y
                              THEN TRUE ELSE @]

InitPI ==
    /\ pi = PIFresh
    /\ MockParked
    /\ CidParked
    /\ RunParked
    /\ BlankParked
    /\ FuseParked
    /\ FlashParked
    /\ HexParked
    /\ ProtoParked

PIReset ==
    /\ pi.calls < MaxPICalls
    /\ pi' = pi_reset(pi)
    /\ UNCHANGED offPI

PIInitProgrammingVars ==
    /\ pi.calls < MaxPICalls
    /\ \E c \in PIChips, ok \in BOOLEAN, answer \in {Ch_I, Ch_N} :
          pi' = pi_init_programming_vars(pi, c, ok, answer)
    /\ UNCHANGED offPI

PICommandCall ==
    /\ pi.calls < MaxPICalls
    /\ \E c \in PICommands, ok \in BOOLEAN, answer \in {Ch_Y, Ch_N} :
          pi' = pi_command(pi, c, ok, answer)
    /\ UNCHANGED offPI

NextPI == PIReset \/ PIInitProgrammingVars \/ PICommandCall

SpecPI == InitPI /\ [][NextPI]_vars

(***************************************************************************)
(* IProgrammingInterface.rom_is_blank: the loop over the programmer's      *)
(* answer bytes.  The programmer is any device: each read yields one of    *)
(* the bytes of BlankResponses, or nothing when the read times out.        *)
(***************************************************************************)
\* number of answer bytes the programmer may send to one call
MaxBlankBytes == 4

\* an empty read: connection.read(1) returns b'' after its timeout
NoByte == 0 - 1

BlankResponses == {Ch_Y, Ch_N, Ch_C, Ch_B, Ch_Q, NoByte}

\* rom_size of the chips rom_is_blank is called for
RomSizes == {64, 256, 512, 768, 1024, 2048}

\* rom_is_blank up to its loop: expected_b_bytes is computed, command_start
\* enters the jump table and sends the command, high_byte is written
rom_is_blank_start(size) ==
    [pc |-> "loop", rom_size |-> size,
     expected_b_bytes |-> (size \div 256) - 1, responses |-> <<>>,
     result |-> FALSE, in_jump_table |-> TRUE]

\* one turn of the loop of rom_is_blank on the byte that was read;
\* command_end leaves the jump table, the two raise statements do not call it
rom_is_blank_turn(st, response) ==
    LET seen == [st EXCEPT !.responses = Append(@, response)]
    IN  IF response = Ch_Y
        THEN [seen EXCEPT !.pc = "returned", !.result = TRUE,
                          !.in_jump_table = FALSE]
        ELSE IF response \in {Ch_N, Ch_C}
        THEN [seen EXCEPT !.pc = "returned", !.result = FALSE,
                          !.in_jump_table = FALSE]
        ELSE IF response = Ch_B
        THEN IF st.expected_b_bytes <= 0
             THEN [seen EXCEPT !.pc = "InvalidResponseError"]
             ELSE seen
        ELSE [seen EXCEPT !.pc = "InvalidResponseError"]

InitBlank ==
    /\ romBlank = BlankFresh
    /\ FuseParked
    /\ FlashParked
    /\ HexParked
    /\ PIParked
    /\ MockParked
    /\ CidParked
    /\ RunParked
    /\ ProtoParked

RomIsBlankCall ==
    /\ romBlank.pc = "idle"
    /\ \E size \in RomSizes : romBlank' = rom_is_blank_start(size)
    /\ UNCHANGED offBlank

RomIsBlankRead ==
    /\ romBlank.pc = "loop"
    /\ Len(romBlank.responses) < MaxBlankBytes
    /\ \E response \in BlankResponses :
           romBlank' = rom_is_blank_turn(romBlank, response)
    /\ UNCHANGED offBlank

NextBlank ==
    \/ RomIsBlankCall
    \/ RomIsBlankRead

SpecBlank == InitBlank /\ [][NextBlank]_vars

(***************************************************************************)
(* The program command of bin/picpro.py with its options --id and --fuse:  *)
(* where the options are checked, statement by statement.  The programmer  *)
(* answers every command as expected.                                      *)
(***************************************************************************)
\* bytes.fromhex(text): ValueError unless text is an even number of hex digits
bytes_fromhex(text) ==
    IF Len(text) % 2 = 0 /\ \A i \in DOMAIN text : IsHexDigit(text[i])
    THEN Returned(fromhex(text))
    ELSE Raised("ValueError")

\* values of --id: none, 4 bytes, 8 bytes, 2 bytes, not hex, an odd number
\* of digits
PicIdOptions ==
    { <<>>,
      << "0", "1", "0", "2", "0", "3", "0", "4" >>,
      << "0", "1", "0", "2", "0", "3", "0", "4", "0", "5", "0", "6", "0", "7", "0", "8" >>,
      << "0", "1", "0", "2" >>,
      << "0", "1", "0", "2", "0", "3", "z", "z" >>,
      << "0", "1", "0", "2", "0", "3", "0" >> }

\* values of --fuse for a chip: no override, or one item that may name an
\* undeclared fuse or setting.  The 16-bit chip of the model declares two of
\* its seven fuse words, so its runs are made without overrides.
FuseOptions(c) ==
    IF core_bits(c) = 16 THEN { <<>> }
    ELSE { items \in FuseItems(ProtoChips[c].fuse_table) : Len(items) <= 1 }

\* the fuse words of the hex file of a run
RunFuseWords(c) ==
    IF core_bits(c) = 16 THEN { Rep(7, 65535) }
    ELSE { <<16383>>, <<16352>> }

\* the dict of the items
ItemsDict(items) ==
    [f \in { items[n][1] : n \in DOMAIN items } |->
        items[CHOOSE n \in DOMAIN items : items[n][1] = f][2]]

\* FlashData.__init__, as far as the options go: pic_id is stored as it is,
\* the overrides are encoded once and the result is dropped
FlashData_options(st) ==
    IF st.fuses # <<>>
       /\ encode_fuse_items(ProtoChips[st.chip].fuse_table, st.fuses).error # "none"
    THEN [st EXCEPT !.pc = "done", !.error = "FuseError"]
    ELSE [st EXCEPT !.pc = "run", !.stmt = 1]

\* FlashData.id_data: the explicit ID decoded, or the ID of the hex file
id_data(st) ==
    IF st.pic_id # <<>> THEN bytes_fromhex(st.pic_id)
    ELSE Returned(IF core_bits(st.chip) = 16 THEN Rep(8, 0) ELSE Rep(4, 0))

\* the error of the statement that programs ID and fuses, "none" if it sends
\* its command: the arguments are evaluated, then checked by program_id_fuses
id_fuses_error(st) ==
    LET pic_id == id_data(st)
        fuses == fuse_data(ProtoChips[st.chip].fuse_table, st.fuse_values,
                           ItemsDict(st.fuses))
    IN  IF pic_id.error # "none" THEN pic_id.error
        ELSE IF fuses.error # "none" THEN fuses.error
        ELSE IF core_bits(st.chip) = 16
        THEN IF Len(pic_id.value) # 8 \/ Len(fuses.value) # 7
             THEN "InvalidValueError" ELSE "none"
        ELSE IF Len(fuses.value) # 1 \/ Len(pic_id.value) # 4
             THEN "InvalidValueError" ELSE "none"

\* one statement of the body of program()
program_statement(st) ==
    LET name == ProgramSteps(st.chip)[st.stmt]
        next == IF st.stmt = Len(ProgramSteps(st.chip))
                THEN [st EXCEPT !.pc = "done"]
                ELSE [st EXCEPT !.stmt = @ + 1]
    IN  IF name \in {"print_chip_config", "set_calibration_word"} THEN next
        ELSE IF name = "program_id_fuses" /\ id_fuses_error(st) # "none"
        THEN [st EXCEPT !.pc = "done", !.error = id_fuses_error(st)]
        ELSE IF name = "program_18fxxxx_fuse" /\ core_bits(st.chip) # 16 THEN next
        ELSE [next EXCEPT !.sent = Append(@, name)]

InitRun ==
    /\ cliRun = RunFresh
    /\ FuseParked
    /\ FlashParked
    /\ HexParked
    /\ PIParked
    /\ MockParked
    /\ CidParked
    /\ BlankParked
    /\ ProtoParked

RunProgram ==
    /\ cliRun.pc = "idle"
    /\ \E c \in ProtoChipIds :
       \E id \in PicIdOptions, items \in FuseOptions(c), w \in RunFuseWords(c) :
           cliRun' = [cliRun EXCEPT !.pc = "build", !.chip = c, !.pic_id = id,
                                    !.fuses = items, !.fuse_values = w]
    /\ UNCHANGED offRun

RunFlashData ==
    /\ cliRun.pc = "build"
    /\ cliRun' = FlashData_options(cliRun)
    /\ UNCHANGED offRun

RunStatement ==
    /\ cliRun.pc = "run"
    /\ cliRun' = program_statement(cliRun)
    /\ UNCHANGED offRun

NextRun ==
    \/ RunProgram
    \/ RunFlashData
    \/ RunStatement

SpecRun == InitRun /\ [][NextRun]_vars

(***************************************************************************)
(* ChipInfoReader (picpro/ChipInfoReader.py): the constructor, one line of *)
(* the file at a time, and get_chip.  A line is its stripped text as       *)
(* [lhs, rhs]: an assignment lhs=rhs, or the empty line when lhs = "".     *)
(* rom_size stands for the required fields of ChipInfoEntry other than     *)
(* chip_name.  chip_entries is the attribute of the class.                 *)
(***************************************************************************)
\* number of blocks of the file of a single reader
MaxCidBlocks == 2

CidLine(lhs, rhs) == [lhs |-> lhs, rhs |-> rhs]

BlankLine == CidLine("", <<>>)

\* a line whose key chip_info_key_replacements does not know
MalformedLine == CidLine("Bogus", << "1" >>)

chip_info_key_replacements(lhs_raw) ==
    CASE lhs_raw = "CHIPname" -> "chip_name"
      [] lhs_raw = "ROMsize" -> "rom_size"
      [] lhs_raw = "ProgramFlag2" -> "program_flag_2"
      [] lhs_raw = "PanelSizing" -> "panel_sizing"
      [] OTHER -> "None"

\* str.lower on the letters of the chip names
lower(ch) ==
    CASE ch = "A" -> "a"
      [] ch = "B" -> "b"
      [] ch = "C" -> "c"
      [] OTHER -> ch

handle_lower(input_str) == [i \in DOMAIN input_str |-> lower(input_str[i])]

\* the block None
NoBlock == [live |-> FALSE, keys |-> {}, chip_name |-> "", rom_size |-> 0]

\* block = {'fuses': {}}
NewBlock == [live |-> TRUE, keys |-> {"fuses"}, chip_name |-> "", rom_size |-> 0]

\* ChipInfoReader.parse_line on an assignment: the block, or FormatError
cid_parse_line(block, line) ==
    LET lhs == chip_info_key_replacements(line.lhs)
        set == [block EXCEPT !.keys = @ \cup {lhs}]
    IN  IF lhs = "None" THEN Raised("FormatError")
        ELSE IF lhs = "chip_name"
        THEN Returned([set EXCEPT !.chip_name = handle_lower(handle_lower(line.rhs))[1]])
        ELSE IF lhs = "rom_size"
        THEN Returned([set EXCEPT !.rom_size = int16(handle_lower(line.rhs))])
        ELSE Returned(set)

\* the arguments ChipInfoEntry.__init__ requires
RequiredKeys == {"chip_name", "rom_size", "fuses"}

\* the end of a block: the two deletions, then the entry is built and stored
\* under block['chip_name']
cid_end_block(st) ==
    IF "program_flag_2" \notin st.block.keys \/ "panel_sizing" \notin st.block.keys
    THEN [st EXCEPT !.error = "KeyError"]
    ELSE IF ~(RequiredKeys \subseteq st.block.keys)
    THEN [st EXCEPT !.error = "TypeError"]
    ELSE LET name == st.block.chip_name
             entry == [rom_size |-> st.block.rom_size, reader |-> st.reader]
             names == DOMAIN st.chip_entries \cup {name}
         IN  [st EXCEPT !.block = NoBlock,
                        !.chip_entries = [n \in names |-> IF n = name THEN entry
                                                          ELSE st.chip_entries[n]]]

\* the body of the loop over the lines for line number line_number
cid_line(st, line, line_number, number_of_lines) ==
    LET block == IF line.lhs # "" /\ ~st.block.live THEN NewBlock ELSE st.block
        parsed == IF line.lhs # "" THEN cid_parse_line(block, line) ELSE Returned(block)
        at == [st EXCEPT !.line = line_number]
    IN  IF parsed.error # "none" THEN [at EXCEPT !.block = NoBlock]
        ELSE IF parsed.value.live /\ (line.lhs = "" \/ line_number = number_of_lines)
        THEN cid_end_block([at EXCEPT !.block = parsed.value])
        ELSE [at EXCEPT !.block = parsed.value]

\* ChipInfoReader.get_chip; "KeyError" when the name is not a key
get_chip(st, name) ==
    LET key == handle_lower(<<name>>)[1]
    IN  IF key \in DOMAIN st.chip_entries THEN Returned(st.chip_entries[key])
        ELSE Raised("KeyError")

\* The blocks of the files: a chip name, a ROM size, and where a malformed
\* line stands: 0 for nowhere, k for before line k of the block, 5 for after
\* its last line.
CidBlocks == [name : {"a", "B"}, rom : {1}, bad : 0..5]

SmallBlocks == [name : {"a", "B", "c"}, rom : {1, 2}, bad : {0}]

BlockLines(b) ==
    LET good == << CidLine("CHIPname", <<b.name>>),
                   CidLine("ROMsize", << HexDigits[b.rom + 1], "0" >>),
                   CidLine("ProgramFlag2", << "0" >>),
                   CidLine("PanelSizing", << "0" >>) >>
    IN  IF b.bad = 0 THEN good
        ELSE SubSeq(good, 1, b.bad - 1) \o << MalformedLine >> \o SubSeq(good, b.bad, 4)

\* the lines of a file: its blocks with an empty line between them and,
\* when closed, an empty line at the end
RECURSIVE FileLines(_)
FileLines(f) ==
    IF f.blocks = <<>> THEN <<>>
    ELSE BlockLines(Head(f.blocks))
         \o (IF Len(f.blocks) > 1 \/ f.closed THEN << BlankLine >> ELSE <<>>)
         \o FileLines([f EXCEPT !.blocks = Tail(@)])

CidFiles ==
    [blocks : UNION { [1..n -> CidBlocks] : n \in 1..MaxCidBlocks }, closed : BOOLEAN]

SmallFiles == [blocks : [1..1 -> SmallBlocks], closed : {TRUE}]

InitCid ==
    /\ \E files \in { <<f>> : f \in CidFiles } \cup (SmallFiles \X SmallFiles) :
           cid = [CidFresh EXCEPT !.files = files]
    /\ FuseParked
    /\ FlashParked
    /\ HexParked
    /\ PIParked
    /\ MockParked
    /\ BlankParked
    /\ RunParked
    /\ ProtoParked

\* ChipInfoReader(file_name) is called for the next file
CidNewReader ==
    /\ cid.error = "none"
    /\ cid.reader < Len(cid.files)
    /\ cid.reader > 0 => cid.line = Len(FileLines(cid.files[cid.reader]))
    /\ cid' = [cid EXCEPT !.reader = @ + 1, !.line = 0, !.block = NoBlock]
    /\ UNCHANGED offCid

\* the constructor reads its next line
CidReadLine ==
    /\ cid.error = "none"
    /\ cid.reader > 0
    /\ LET lines == FileLines(cid.files[cid.reader])
       IN  /\ cid.line < Len(lines)
           /\ cid' = cid_line(cid, lines[cid.line + 1], cid.line + 1, Len(lines))
    /\ UNCHANGED offCid

NextCid ==
    \/ CidNewReader
    \/ CidReadLine

SpecCid == InitCid /\ [][NextCid]_vars

(***************************************************************************)
(* The mocked serial device of the protocol tests and its thread           *)
(* (tests/P018aMockedDevice.py), statement by statement.  The test thread  *)
(* calls write / read / close of the device while the daemon thread runs   *)
(* listen_for_commands; the two share input_buffer and output_buffer       *)
(* without a lock, so a statement that loads a buffer and stores it back   *)
(* is two steps.  host_wrote, thread_read, thread_wrote and host_read      *)
(* record the bytes each side wrote and received.                          *)
(***************************************************************************)
\* number of bytes the test thread writes, of reads it makes, and of read
\* timeouts of the device thread
MaxMockWrites == 2
MaxMockReads == 2
MaxMockTimeouts == 1

\* bytes the test thread writes: 'P', command 1, and a byte that is neither
MockBytes == {Ch_P, 1, Ch_0}

\* listen_for_commands: what the thread answers to data, for data of at most
\* one byte of MockBytes (<<>> is the b'' of a read that timed out)
listen_answer(in_jump_table, data) ==
    IF in_jump_table
    THEN IF data = <<1>> THEN <<Ch_Q>> ELSE <<Ch_F>>
    ELSE IF data = <<1>> THEN <<Ch_Q>>
         ELSE IF data = <<Ch_P>> THEN <<Ch_P>>
         ELSE <<Ch_O>>

listen_in_jump_table(in_jump_table, data) ==
    IF data = <<1>> THEN FALSE
    ELSE IF ~in_jump_table /\ data = <<Ch_P>> THEN TRUE
    ELSE in_jump_table

InitMock ==
    /\ mock = MockFresh
    /\ FuseParked
    /\ FlashParked
    /\ HexParked
    /\ PIParked
    /\ BlankParked
    /\ RunParked
    /\ CidParked
    /\ ProtoParked

\* P018aMockedDevice.write: self.input_buffer += data, the load
MockWriteLoad ==
    /\ mock.host_pc = "idle"
    /\ mock.is_open
    /\ Len(mock.host_wrote) < MaxMockWrites
    /\ \E b \in MockBytes :
           mock' = [mock EXCEPT !.host_pc = "write", !.host_data = <<b>>,
                                !.host_loaded = mock.input_buffer]
    /\ UNCHANGED offMock

\* P018aMockedDevice.write: self.input_buffer += data, the store
MockWriteStore ==
    /\ mock.host_pc = "write"
    /\ mock' = [mock EXCEPT !.host_pc = "idle",
                            !.host_data = <<>>, !.host_loaded = <<>>,
                            !.input_buffer = mock.host_loaded \o mock.host_data,
                            !.host_wrote = @ \o mock.host_data]
    /\ UNCHANGED offMock

\* P018aMockedDevice.read(1): requested_data = self.output_buffer[:length]
MockReadSlice ==
    /\ mock.host_pc = "idle"
    /\ mock.is_open
    /\ mock.reads < MaxMockReads
    /\ mock' = [mock EXCEPT !.host_pc = "read_load", !.reads = @ + 1,
                            !.host_data = Slice(mock.output_buffer, 1, 1)]
    /\ UNCHANGED offMock

\* P018aMockedDevice.read(1): self.output_buffer[length:], the load
MockReadLoad ==
    /\ mock.host_pc = "read_load"
    /\ mock' = [mock EXCEPT !.host_pc = "read_store",
                            !.host_loaded = mock.output_buffer]
    /\ UNCHANGED offMock

\* P018aMockedDevice.read(1): self.output_buffer = ..., the store and return
MockReadStore ==
    /\ mock.host_pc = "read_store"
    /\ mock' = [mock EXCEPT !.host_pc = "idle",
                            !.host_data = <<>>, !.host_loaded = <<>>,
                            !.output_buffer = Slice(mock.host_loaded, 2, Len(mock.host_loaded)),
                            !.host_read = @ \o mock.host_data]
    /\ UNCHANGED offMock

\* P018aMockedDevice.close
MockClose ==
    /\ mock.host_pc = "idle"
    /\ mock.is_open
    /\ mock' = [mock EXCEPT !.is_open = FALSE]
    /\ UNCHANGED offMock

\* listen_for_commands: while self.device.is_open: data = self.read(), and
\* the first statement of the loop of read: read_result = input_buffer[:count]
ThreadReadSlice ==
    /\ mock.thread_pc \in {"listen", "read"}
    /\ mock.thread_pc = "listen" => mock.is_open
    /\ mock' = [mock EXCEPT !.thread_pc = "read_load",
                            !.read_result = Slice(mock.input_buffer, 1, 1)]
    /\ UNCHANGED offMock

\* read: self.device.input_buffer[count:], the load
ThreadReadLoad ==
    /\ mock.thread_pc = "read_load"
    /\ mock' = [mock EXCEPT !.thread_pc = "read_store",
                            !.thread_loaded = mock.input_buffer]
    /\ UNCHANGED offMock

\* read: self.device.input_buffer = ..., the store; count and result are
\* updated and read returns when count is 0
ThreadReadStore ==
    /\ mock.thread_pc = "read_store"
    /\ mock' = [mock EXCEPT
                  !.input_buffer = Slice(mock.thread_loaded, 2, Len(mock.thread_loaded)),
                  !.thread_pc = IF mock.read_result = <<>> THEN "read" ELSE "answer",
                  !.data = mock.read_result,
                  !.read_result = <<>>, !.thread_loaded = <<>>,
                  !.thread_read = @ \o mock.read_result]
    /\ UNCHANGED offMock

\* read: the timeout has passed with nothing read, read returns b''
ThreadReadTimeout ==
    /\ mock.thread_pc = "read"
    /\ mock.timeouts < MaxMockTimeouts
    /\ mock' = [mock EXCEPT !.thread_pc = "answer", !.data = <<>>,
                            !.timeouts = @ + 1]
    /\ UNCHANGED offMock

\* listen_for_commands: the branch for data, up to the load of
\* self.output_buffer += data in mock_send
ThreadAnswer ==
    /\ mock.thread_pc = "answer"
    /\ mock' = [mock EXCEPT !.thread_pc = "send",
                            !.in_jump_table = listen_in_jump_table(@, mock.data),
                            !.answer = listen_answer(mock.in_jump_table, mock.data),
                            !.thread_loaded = mock.output_buffer]
    /\ UNCHANGED offMock

\* mock_send: self.output_buffer += data, the store
ThreadSendStore ==
    /\ mock.thread_pc = "send"
    /\ mock' = [mock EXCEPT !.thread_pc = "listen",
                            !.data = <<>>, !.answer = <<>>, !.thread_loaded = <<>>,
                            !.output_buffer = mock.thread_loaded \o mock.answer,
                            !.thread_wrote = @ \o mock.answer]
    /\ UNCHANGED offMock

NextMock ==
    \/ MockWriteLoad
    \/ MockWriteStore
    \/ MockReadSlice
    \/ MockReadLoad
    \/ MockReadStore
    \/ MockClose
    \/ ThreadReadSlice
    \/ ThreadReadLoad
    \/ ThreadReadStore
    \/ ThreadReadTimeout
    \/ ThreadAnswer
    \/ ThreadSendStore

SpecMock == InitMock /\ [][NextMock]_vars

(***************************************************************************)
(* Properties of the fuse codec                                            *)
(***************************************************************************)
\* A setting is compatible with the observed words when AND-ing its masks
\* leaves them unchanged.
Compatible(c, f, k, words) ==
    indexwise_and(words, FuseChips[c].fuses[f][k]) = words

\* The bits a setting clears, as (fuse index, bit number) pairs.
ClearedBits(setting_value) ==
    { ib \in { <<setting_value[p][1], b>> : p \in DOMAIN setting_value, b \in 0..15 } :
        \E p \in DOMAIN setting_value :
            /\ setting_value[p][1] = ib[1]
            /\ (setting_value[p][2] \div Pow2(ib[2])) % 2 = 0 }

\* C7: fuse round trip - decode_fuse_data(encode_fuse_data(s)) returns s for
\* every mapping s that assigns one declared setting to every declared fuse.
C7_RoundTrip ==
    fuseCall = "roundtrip" => fuseRet = Returned(fuseArg)

\* C8: for every declared fuse the setting returned by decode_fuse_data is
\* compatible with the observed words, and no other compatible setting of
\* that fuse clears a strict superset of the bits it clears.
C8_DecodePicksMostCleared ==
    (fuseCall = "decode" /\ fuseRet.error = "none") =>
        \A f \in DOMAIN fuseRet.value :
            /\ Compatible(fuseChip, f, fuseRet.value[f], fuseArg)
            /\ ~ \E k \in DOMAIN FuseChips[fuseChip].fuses[f] :
                    /\ Compatible(fuseChip, f, k, fuseArg)
                    /\ ClearedBits(FuseChips[fuseChip].fuses[f][fuseRet.value[f]])
                         \subseteq ClearedBits(FuseChips[fuseChip].fuses[f][k])
                    /\ ClearedBits(FuseChips[fuseChip].fuses[f][fuseRet.value[f]])
                         # ClearedBits(FuseChips[fuseChip].fuses[f][k])

\* C9: decode_fuse_data raises FuseError if and only if some declared fuse
\* has no setting compatible with the observed words; otherwise it returns
\* exactly one setting for every declared fuse.
C9_FuseErrorIffNoCompatible ==
    fuseCall = "decode" =>
        LET fs == FuseChips[fuseChip].fuses
            noneCompatible == \E f \in DOMAIN fs :
                                 \A k \in DOMAIN fs[f] : ~Compatible(fuseChip, f, k, fuseArg)
        IN  /\ (fuseRet.error = "FuseError") <=> noneCompatible
            /\ ~noneCompatible =>
                 /\ fuseRet.error = "none"
                 /\ DOMAIN fuseRet.value = DOMAIN fs
                 /\ \A f \in DOMAIN fs : fuseRet.value[f] \in DOMAIN fs[f]

(***************************************************************************)
(* Properties of the sessions                                              *)
(***************************************************************************)
\* a call of cmd has ended and nothing was called since
Ended(cmd) == hostCmd = "none" /\ hostOutcome.cmd = cmd

\* position of the last write tagged tag in a log that holds one
LastIndexOf(log, tag) ==
    CHOOSE i \in DOMAIN log : log[i] = tag /\ \A j \in DOMAIN log : j > i => log[j] # tag

\* the step writes bytes to the port
Wrote == Len(cmdLog') = Len(cmdLog) + 1

\* C1: when a chip command that switched Vpp on has ended, by returning or
\* by raising, a Vpp-off was written after its last Vpp-on, and no jump exit
\* was written between the two.
C1_VppOffBeforeCommandEnds ==
    (/\ hostCmd = "none"
     /\ hostOutcome.cmd \in ChipCommandNames
     /\ \E i \in DOMAIN cmdLog : cmdLog[i] = "vpp_on")
    => LET on == LastIndexOf(cmdLog, "vpp_on")
       IN  \E off \in DOMAIN cmdLog :
              /\ off > on
              /\ cmdLog[off] = "vpp_off"
              /\ \A k \in on..off : cmdLog[k] # "jump_exit"

\* C2: when a CLI command has left the session it had entered (connection
\* and programming interface), the programmer was outside the jump table and
\* Vpp was off at the moment the serial port was closed.
C2_ReleasedIdleAndVppOff ==
    (mode # "api" /\ iface = "ready" /\ snapshot.closed)
    => (~snapshot.in_jump_table /\ ~snapshot.is_programming_voltages_on)

\* The order of the writes of command_start and what they wait for.
C3_Order ==
    /\ cmdLog' = Append(cmdLog, "jump_enter")
         => (cmdLog # <<>> /\ cmdLog[Len(cmdLog)] = "resync" /\ hostRegs.expect = <<Ch_Q>>)
    /\ (Wrote /\ cmdLog # <<>> /\ cmdLog[Len(cmdLog)] = "jump_enter")
         => hostRegs.ack = <<Ch_P>>
    /\ (Wrote /\ cmdLog = <<>>
          /\ hostCmd \notin {"command_end", "set_programming_voltages_command"})
         => cmdLog'[1] = "resync"

\* 0x01 read by the programmer outside the jump table: 'Q', still outside.
C3_ResyncInIdle ==
    (/\ dev.pc = "listen"
     /\ ~dev.in_jump_table
     /\ h2d # <<>>
     /\ Head(h2d) = 1
     /\ Len(h2d') < Len(h2d))
    => (dev'.pc = "listen" /\ ~dev'.in_jump_table /\ d2h' = d2h \o <<Ch_Q>>)

\* Where command_start and command_end leave the programmer, and how a call
\* ends that got no further than the handshake.
C3_Ends ==
    /\ (Ended("command_start") /\ hostOutcome.error = "none" /\ hostOutcome.entered # "dirty")
         => dev.in_jump_table
    /\ (Ended("command_end") /\ hostOutcome.error = "none" /\ hostOutcome.entered # "dirty")
         => ~dev.in_jump_table
    /\ Ended("command_start") => hostOutcome.error \in {"none", "InvalidResponseError"}
    /\ (/\ hostCmd = "none"
        /\ hostOutcome.cmd \notin {"none", "command_start", "command_end",
                                   "set_programming_voltages_command"}
        /\ cmdLog # <<>>
        /\ cmdLog[Len(cmdLog)] \in {"resync", "jump_enter"})
         => hostOutcome.error = "InvalidResponseError"

\* C3: framing - command_start writes 0x01, then 'P' only after 'Q' was read,
\* then the opcode (or whatever follows) only after 'P' was read; entered
\* with a quiet line it returns with the programmer in its jump table, and
\* command_end returns with it outside; 0x01 outside the jump table is
\* answered 'Q' and leaves the programmer outside; a call stopped by a wrong
\* byte or a timeout in the handshake raised InvalidResponseError, no opcode
\* written.
C3_Framing == [][C3_Order /\ C3_ResyncInIdle]_vars /\ []C3_Ends

\* a quiet-line command_start has returned that found the programmer in its
\* jump table
C3_Witness ==
    /\ Ended("command_start")
    /\ hostOutcome.error = "none"
    /\ hostOutcome.entered = "jump"
    /\ dev.in_jump_table

\* the order of the commands of a program run, as claimed
ProgramOrder(c) ==
    << "init_programming_vars", "read_config" >>
    \o (IF ProtoChips[c].flash_chip THEN << "erase_chip" >> ELSE <<>>)
    \o << "cycle_programming_voltages", "program_rom", "program_eeprom", "program_id_fuses",
          "read_rom", "read_eeprom", "program_18fxxxx_fuse" >>

IsPrefix(a, b) == Len(a) <= Len(b) /\ a = SubSeq(b, 1, Len(a))

\* C4: the commands of a program run reach the programmer as a prefix of
\* init vars, read config, erase (exactly for flash chips), cycle Vpp,
\* program ROM, program EEPROM, program ID+fuses, read ROM, read EEPROM,
\* commit; once a command of the run has raised, no further command is sent.
C4_ProgramOrder ==
    /\ [](mode = "program" => IsPrefix(opsSent, ProgramOrder(chip)))
    /\ [][(mode = "program" /\ hostCmd = "none" /\ hostOutcome.error # "none")
            => (opsSent' = opsSent /\ hostCmd' = "none")]_vars

\* a program run has sent all ten commands
C4_Witness ==
    /\ mode = "program"
    /\ opsSent = ProgramOrder(chip)
    /\ Ended("program_18fxxxx_fuse")
    /\ hostOutcome.error = "none"

\* C5: in a program run on a 16-bit core the commit of the fuses is sent
\* only if the verification passed: ROM and EEPROM read back equal the image.
C5_CommitOnlyIfVerified ==
    (/\ mode = "program"
     /\ core_bits(chip) = 16
     /\ \E i \in DOMAIN opsSent : opsSent[i] = "program_18fxxxx_fuse")
    => verified = "passed"

\* The claim as made: a transaction exactly for a 16-bit core and a 'Y'.
C6_TransactionIffYes ==
    Ended("program_id_fuses")
    => (hostOutcome.returns = "FuseTransaction"
          <=> (core_bits(chip) = 16 /\ hostRegs.response = <<Ch_Y>>))

\* the commit opcode is written only after a staging handed out a transaction
CommitOnlyAfterStaging ==
    (\E i \in DOMAIN cmdLog : cmdLog[i] = "program_18fxxxx_fuse") => staged

\* C6: program_id_fuses returns a FuseTransaction exactly when the core is
\* 16-bit, the programmer answered 'Y' and it acknowledged the Vpp-off ('v')
\* and the jump exit ('Q') that are sent before the answer is looked at; for
\* 12/14-bit cores it returns no transaction; when its I/O does not go this
\* way it raises InvalidResponseError.  The commit opcode is never written
\* unless a staging on a 16-bit core succeeded earlier in the session.
C6_TransactionIffStagedAndReleased ==
    /\ Ended("program_id_fuses")
         => LET acked == /\ hostRegs.response = <<Ch_Y>>
                         /\ hostRegs.expect = <<Ch_v>>
                         /\ hostRegs.ack = <<Ch_Q>>
            IN  /\ hostOutcome.returns = "FuseTransaction" <=> (core_bits(chip) = 16 /\ acked)
                /\ (cmdLog # <<>> /\ ~acked) => hostOutcome.error = "InvalidResponseError"
                /\ acked => hostOutcome.error = "none"
    /\ CommitOnlyAfterStaging
    /\ staged => core_bits(chip) = 16

\* a staging on a 16-bit core has handed out its transaction
C6_Witness ==
    /\ Ended("program_id_fuses")
    /\ hostOutcome.returns = "FuseTransaction"
    /\ staged

\* C10: program_rom raises InvalidValueError, nothing written, exactly for
\* the data whose length is no multiple of 32 or exceeds rom_size * 2.
C10_RomLengthCheck ==
    Ended("program_rom")
    => LET bad == \/ hostOutcome.arg % 32 # 0
                  \/ hostOutcome.arg > ProtoChips[chip].rom_size * 2
       IN  /\ bad => (hostOutcome.error = "InvalidValueError" /\ cmdLog = <<>>)
           /\ ~bad => cmdLog # <<>>

\* number of writes tagged tag in a log
RECURSIVE CountTag(_, _)
CountTag(log, tag) ==
    IF log = <<>> THEN 0
    ELSE (IF Head(log) = tag THEN 1 ELSE 0) + CountTag(Tail(log), tag)

\* the data argument of the program_rom call in progress (or just ended)
RomCallData == IF mode = "api" THEN RomData(hostOutcome.arg) ELSE rom_data

\* the writes of a program_rom that went through, for data of n bytes
RomWrites(n) ==
    << "resync", "jump_enter", "vpp_on", "program_rom", "payload" >>
    \o [i \in 1..(n \div 32) |-> "payload"] \o << "vpp_off", "jump_exit" >>

\* program_rom was called with a quiet line and nothing disturbed the line
RomUndisturbed == hostOutcome.entered # "dirty" /\ faults = 0

\* Each write of program_rom after the opcode: the word count first, then
\* the packets in image order, each only when the programmer has read all
\* that was sent and the host has read all the programmer answered.
C11_Packets ==
    (hostCmd = "program_rom" /\ cmdLog' = Append(cmdLog, "payload"))
    => LET k == CountTag(cmdLog, "payload")
           n == hostOutcome.arg
       IN  /\ k = 0 => h2d' = h2d \o BE16(n \div 2)
           /\ k > 0 => /\ k <= n \div 32
                       /\ h2d' = h2d \o SubSeq(RomCallData, 32 * (k - 1) + 1, 32 * k)
                       /\ hostRegs.expect = <<Ch_Y>>
                       /\ RomUndisturbed => (h2d = <<>> /\ d2h = <<>>
                                               /\ Len(dev.buf) = 32 * (k - 1))

\* How an undisturbed program_rom of at least minLen bytes goes: it is never
\* left waiting for an answer that does not come, and it ends by returning,
\* all its writes made, the programmer idle with Vpp off and the data stored.
RomGoesThrough(minLen) ==
    /\ (hostCmd = "program_rom" /\ RomUndisturbed /\ hostOutcome.arg >= minLen
           /\ Cur.k \in {"r", "ra"} /\ Len(d2h) < Cur.n)
         => DeviceCanRead
    /\ (Ended("program_rom") /\ RomUndisturbed /\ cmdLog # <<>> /\ hostOutcome.arg >= minLen)
         => /\ hostOutcome.error = "none"
            /\ cmdLog = RomWrites(hostOutcome.arg)
            /\ hostRegs.expect = <<Ch_v>>
            /\ LineState = "idle"
            /\ ~dev.is_programming_voltages_on
            /\ SubSeq(dev.rom, 1, 32 * (hostOutcome.arg \div 32))
                 = SubSeq(RomCallData, 1, 32 * (hostOutcome.arg \div 32))

\* The claim as made: every accepted data, the empty image included.
C11_ProgramRomAlwaysSucceeds == RomGoesThrough(0)

\* C11: for accepted data holding at least one packet (32 bytes or more),
\* program_rom sends Vpp-on, the opcode and the big-endian word count, then
\* the 32-byte packets in image order, packet k+1 only after the 'Y' for
\* packet k was read, then requires 'P', then sends Vpp-off and the jump
\* exit; undisturbed, it always returns, the programmer idle with Vpp off
\* and no unread byte.
C11_ProgramRomLockstep == [][C11_Packets]_vars /\ []RomGoesThrough(32)

\* an undisturbed program_rom of two packets has returned
C11_Witness ==
    /\ Ended("program_rom")
    /\ hostOutcome.error = "none"
    /\ hostOutcome.arg = 64
    /\ RomUndisturbed
    /\ cmdLog = RomWrites(64)

\* the data argument of the program_eeprom call in progress (or just ended)
EepromCallData == IF mode = "api" THEN Rep(hostOutcome.arg, 90) ELSE eeprom_data

\* the writes of a program_eeprom that went through, for data of n bytes
EepromWrites(n) ==
    << "resync", "jump_enter", "vpp_on", "program_eeprom", "payload" >>
    \o [i \in 1..(n \div 2) |-> "payload"] \o << "payload", "vpp_off", "jump_exit" >>

\* the call found a quiet line and nothing disturbed the line since
Undisturbed == hostOutcome.entered # "dirty" /\ faults = 0

\* Each write of program_eeprom after the opcode: the byte count, the
\* chunks in order, two zero bytes; each chunk and the zero bytes only when
\* both sides have read all that the other sent.
C12_Chunks ==
    (hostCmd = "program_eeprom" /\ cmdLog' = Append(cmdLog, "payload"))
    => LET k == CountTag(cmdLog, "payload")
           n == hostOutcome.arg
       IN  /\ k = 0 => h2d' = h2d \o BE16(n)
           /\ (k > 0 /\ k <= n \div 2)
                 => h2d' = h2d \o SubSeq(EepromCallData, 2 * k - 1, 2 * k)
           /\ k = n \div 2 + 1 => h2d' = h2d \o <<0, 0>>
           /\ k <= n \div 2 + 1
           /\ k > 0 => /\ hostRegs.expect = <<Ch_Y>>
                       /\ Undisturbed => (h2d = <<>> /\ d2h = <<>>
                                            /\ Len(dev.buf) = 2 * (k - 1))

\* The argument checks, and where an undisturbed program_eeprom ends.
C12_Ends ==
    Ended("program_eeprom")
    => LET n == hostOutcome.arg
           bad == n > ProtoChips[chip].eeprom_size \/ n % 2 # 0
       IN  /\ bad <=> hostOutcome.error = "InvalidValueError"
           /\ bad <=> cmdLog = <<>>
           /\ (~bad /\ Undisturbed)
                 => /\ h2d = <<>> /\ d2h = <<>> /\ dev.pc = "listen"
                    /\ n >= 2 => /\ hostOutcome.error = "none"
                                 /\ cmdLog = EepromWrites(n)
                                 /\ hostRegs.expect = <<Ch_v>>
                                 /\ LineState = "idle"
                                 /\ ~dev.is_programming_voltages_on
                                 /\ SubSeq(dev.eeprom, 1, n) = EepromCallData

\* an undisturbed program_eeprom is never left waiting for a missing answer
C12_NotStuck ==
    (hostCmd = "program_eeprom" /\ Undisturbed /\ Cur.k \in {"r", "ra"} /\ Len(d2h) < Cur.n)
    => DeviceCanRead

C13_Payload ==
    (hostCmd = "program_id_fuses" /\ cmdLog' = Append(cmdLog, "payload"))
    => (Len(h2d') = Len(h2d) + 24 /\ cmdLog[Len(cmdLog)] = "program_id_fuses")

\* the argument checks, and the programmer reading all of the payload
C13_Ends ==
    Ended("program_id_fuses")
    => LET accepted == IF core_bits(chip) = 16 THEN hostOutcome.arg = IdFusesShape(Rep(8, 0), Rep(7, 0))
                       ELSE core_bits(chip) \in {12, 14}
                            /\ hostOutcome.arg = IdFusesShape(Rep(4, 0), Rep(1, 0))
       IN  /\ ~accepted <=> hostOutcome.error = "InvalidValueError"
           /\ ~accepted <=> cmdLog = <<>>
           /\ (accepted /\ Undisturbed)
                 => /\ hostOutcome.error = "none"
                    /\ hostRegs.response = <<Ch_Y>>
                    /\ LineState = "idle"

\* C13: program_id_fuses raises InvalidValueError before any byte is
\* written unless (16-bit core, 8-byte id, 7 fuse words) or (12/14-bit core,
\* 4-byte id, 1 fuse word); in both accepted shapes the payload written
\* after the opcode is exactly 24 bytes, which the programmer reads whole
\* before it answers.
C13_IdFusesShapes == [][C13_Payload]_vars /\ []C13_Ends

\* both accepted shapes: a staging on a 16-bit core (see C6_Witness) and this
\* undisturbed one on a 12- or 14-bit core
C13_Witness ==
    /\ Ended("program_id_fuses")
    /\ core_bits(chip) \in {12, 14}
    /\ hostOutcome.arg = IdFusesShape(Rep(4, 0), Rep(1, 0))
    /\ hostOutcome.error = "none"
    /\ Undisturbed

\* C14: constructing the programming interface for the P18A revision sends,
\* inside one jump, opcode 3 and the 11-byte variables block and waits for
\* 'I': on an undisturbed line the construction ends with these writes made
\* and the interface ready.
C14_P18AConstructionSendsInit ==
    (revision = "P18A" /\ Ended("init_programming_vars") /\ Undisturbed)
    => /\ hostOutcome.error = "none"
       /\ cmdLog = << "resync", "jump_enter", "init_programming_vars", "payload", "jump_exit" >>
       /\ iface = "ready"

\* operations that send an opcode of their own
OperationNames ==
    LoggedCommands \cup {"vpp_on", "vpp_off",
                         "wait_until_chip_out_of_socket", "programmer_version",
                         "programmer_protocol"}

VerifyCommands == {"init_programming_vars", "read_config", "read_rom", "read_eeprom"}

FramingTags == {"resync", "jump_enter", "jump_exit", "vpp_on", "vpp_off"}

\* C16: a verify run never sends erase, program ROM, program EEPROM,
\* program ID and fuses, program calibration or the fuse commit, whatever
\* the device answers: every opcode it sends is one of init programming
\* vars, read config, read ROM, read EEPROM, and every other write is the
\* framing or Vpp byte of one of these or the variables block of the init.
C16_VerifyReadOnly ==
    mode = "verify"
    => /\ \A i \in DOMAIN opsSent : opsSent[i] \in VerifyCommands
       /\ \A i \in DOMAIN cmdLog :
            \/ cmdLog[i] \in VerifyCommands \cup FramingTags
            \/ cmdLog[i] = "payload" /\ i > 1 /\ cmdLog[i - 1] = "init_programming_vars"
       /\ hostCmd \in VerifyCommands \cup {"none", "reset"}
       /\ ~txn /\ ~staged

\* a verify run that went through all of its statements, the EEPROM
\* read included
C16_Witness ==
    /\ mode = "verify"
    /\ runPc > Len(Steps)
    /\ hostCmd = "none"
    /\ hostOutcome.error = "none"
    /\ opsSent = << "init_programming_vars", "read_config", "read_rom", "read_eeprom" >>

\* the commands that erase or write the chip
MutatingCommands ==
    {"erase_chip", "program_rom", "program_eeprom", "program_id_fuses",
     "program_calibration", "program_18fxxxx_fuse"}

\* C17: in a program run without --icsp the wait for the chip in the
\* socket is sent, and answered, before the first erase or program command.
\* (The runs here are runs without --icsp: the variables block carries the
\* power sequence of the chip unchanged.)
C17_WaitBeforeProgramming ==
    mode = "program"
    => \A i \in DOMAIN opsSent :
          opsSent[i] \in MutatingCommands
          => \E j \in 1..(i - 1) : opsSent[j] = "wait_until_chip_in_socket"

\* C18: the program and verify runs send program EEPROM and read EEPROM if
\* and only if eeprom_size of the chip is not zero: never for a chip
\* without EEPROM, and a run that went through for a chip with EEPROM has
\* sent read EEPROM (and program EEPROM, when it is a program run).
C18_EepromIffPresent ==
    mode \in {"program", "verify"}
    => /\ ProtoChips[chip].eeprom_size = 0
          => \A i \in DOMAIN opsSent : opsSent[i] \notin {"program_eeprom", "read_eeprom"}
       /\ (ProtoChips[chip].eeprom_size # 0 /\ runPc > Len(Steps) /\ hostCmd = "none"
            /\ hostOutcome.error = "none")
          => /\ \E i \in DOMAIN opsSent : opsSent[i] = "read_eeprom"
             /\ mode = "program" => \E i \in DOMAIN opsSent : opsSent[i] = "program_eeprom"

\* the image of the hex file with the calibration word in its last two bytes
PatchedImage ==
    LET n == ProtoChips[chip].rom_size * 2
    IN  [i \in 1..n |-> IF i > n - 2 THEN calibration_word[i - (n - 2)] ELSE RomImage(chip)[i]]

\* The calibration word of a run is taken from the answer of read_config,
\* big-endian, before any erase or program command is sent, and only for a
\* chip with cal_word.
C19_TakenFromConfig ==
    calibration_word' # calibration_word
    => /\ ProtoChips[chip].cal_word
       /\ mode # "api"
          => /\ hostOutcome.cmd = "read_config"
             /\ hostOutcome.error = "none"
             /\ calibration_word'
                  = BE16(hostOutcome.value[25] + 256 * hostOutcome.value[26])
             /\ \A i \in DOMAIN opsSent : opsSent[i] \notin MutatingCommands

\* The packets program_rom sends in a program run for a chip with cal_word
\* are cut from the patched image.
C19_SentPatched ==
    (mode = "program" /\ ProtoChips[chip].cal_word /\ hostCmd = "program_rom"
        /\ cmdLog' = Append(cmdLog, "payload") /\ CountTag(cmdLog, "payload") > 0)
    => LET k == CountTag(cmdLog, "payload")
       IN  /\ calibration_word # <<>>
           /\ h2d' = h2d \o SubSeq(PatchedImage, 32 * (k - 1) + 1, 32 * k)

\* rom_data keeps the length of the image; without cal_word the calibration
\* word is never set, a call of set_calibration_word ends with ValueError
\* and rom_data is the image.
C19_Lengths ==
    /\ Len(rom_data) = ProtoChips[chip].rom_size * 2
    /\ Len(RomImage(chip)) = ProtoChips[chip].rom_size * 2
    /\ calibration_word # <<>> => rom_data = PatchedImage
    /\ ~ProtoChips[chip].cal_word
         => /\ calibration_word = <<>>
            /\ rom_data = RomImage(chip)
            /\ hostOutcome.cmd = "set_calibration_word" => hostOutcome.error = "ValueError"

\* C19: for a chip with cal_word the ROM image that program_rom sends in a
\* program run is the image of the hex file except for its last two bytes,
\* which are the calibration value read_config returned before the erase;
\* its length stays rom_size * 2 and the stored image is not changed.  For
\* a chip without cal_word set_calibration_word is rejected and rom_data
\* is the image as stored.
C19_CalibrationPreserved ==
    /\ [][C19_TakenFromConfig /\ C19_SentPatched]_vars
    /\ []C19_Lengths

\* a program run for a chip with cal_word has written the whole patched
\* image into the chip, the calibration word being that of the chip
C19_Witness ==
    /\ mode = "program"
    /\ ProtoChips[chip].cal_word
    /\ Ended("program_rom")
    /\ hostOutcome.error = "none"
    /\ calibration_word = <<52, 68>>
    /\ dev.rom = PatchedImage
    /\ dev.rom # RomImage(chip)

\* set_calibration_word was called for a chip without cal_word
C19_WitnessRejected ==
    /\ ~ProtoChips[chip].cal_word
    /\ hostOutcome.cmd = "set_calibration_word"

\* a data byte lies beyond the declared sizes: at a ROM address (below the
\* other regions) at or above rom_size * 2, or at an EEPROM offset at or
\* above eeprom_size
DataBeyondSizes(c, hex) ==
    LET map == MemoryMapping(c)
    IN  \E p \in hex :
           \/ /\ p[1] >= FlashChips[c].rom_size * 2
              /\ p[1] < map.config.start
              /\ p[1] < map.eeprom.start
           \/ /\ p[1] >= map.eeprom.start + FlashChips[c].eeprom_size
              /\ map.config.start > map.eeprom.start => p[1] < map.config.start

\* C20: building a FlashData fails whenever the hex file holds a data
\* byte, of any value, at a ROM address at or beyond rom_size * 2 or at an
\* EEPROM offset at or beyond eeprom_size, and succeeds when all data lies
\* inside the declared sizes.
C20_OversizeRejected ==
    flashData.built
    => (flashData.error # "none" <=> DataBeyondSizes(flashChip, hex_file))

\* the ROM words (counted from 0) of which the hex file holds no byte
AbsentRomWords(c, hex) ==
    {w \in 0..(FlashChips[c].rom_size - 1) : \A p \in hex : p[1] \notin {2 * w, 2 * w + 1}}

\* C21: rom_data has rom_size * 2 bytes, and each of its words that the hex
\* file does not cover reads, big-endian, as the blank word of the core,
\* whatever the byte order of the hex file.
C21_RomPaddedWithBlankWord ==
    (flashData.built /\ flashData.error = "none")
    => /\ Len(flashData.rom_buffer) = FlashChips[flashChip].rom_size * 2
       /\ \A w \in AbsentRomWords(flashChip, hex_file) :
             flashData.rom_buffer[2 * w + 1] * 256 + flashData.rom_buffer[2 * w + 2]
               = 2 ^ flash_core_bits(flashChip) - 1

\* every ROM word of the hex file is supplied whole or not at all
WholeRomWords(c, hex) ==
    \A w \in 0..(FlashChips[c].rom_size - 1) :
       (HexGet(hex, 2 * w) # None) <=> (HexGet(hex, 2 * w + 1) # None)

\* The decision as claimed for a 14-bit core, from ROM word w on: the first
\* supplied word that fits the blank mask in exactly one byte order
\* decides, a supplied word that fits in neither is an error, and all
\* words up to the last one are looked at.
RECURSIVE ClaimedLittleEndianFrom(_, _, _)
ClaimedLittleEndianFrom(c, hex, w) ==
    IF w >= FlashChips[c].rom_size THEN "no"
    ELSE IF HexGet(hex, 2 * w) = None THEN ClaimedLittleEndianFrom(c, hex, w + 1)
    ELSE LET be_ok == HexGet(hex, 2 * w) * 256 + HexGet(hex, 2 * w + 1) < 2 ^ 14
             le_ok == HexGet(hex, 2 * w + 1) * 256 + HexGet(hex, 2 * w) < 2 ^ 14
         IN  IF be_ok /\ le_ok THEN ClaimedLittleEndianFrom(c, hex, w + 1)
             ELSE IF le_ok THEN "yes"
             ELSE IF be_ok THEN "no"
             ELSE "ValueError"

ClaimedLittleEndian(c, hex) ==
    IF flash_core_bits(c) = 16 THEN "yes"
    ELSE IF flash_core_bits(c) = 12 THEN "no"
    ELSE ClaimedLittleEndianFrom(c, hex, 0)

\* C22: the buffers are swapped exactly when the image is little-endian:
\* always for a 16-bit core, never for a 12-bit core, and for a 14-bit core
\* when the first supplied ROM word that fits the blank mask in exactly one
\* byte order fits it little-endian; a supplied word that fits in neither
\* order fails the build, and padding has no part in the decision.
C22_EndiannessDecision ==
    (flashData.built /\ flash_core_bits(flashChip) # 0 /\ WholeRomWords(flashChip, hex_file))
    => /\ ClaimedLittleEndian(flashChip, hex_file) = "ValueError"
            => flashData.error = "ValueError"
       /\ flashData.error = "none"
            => flashData.is_swap_bytes = (ClaimedLittleEndian(flashChip, hex_file) = "yes")

\* the bytes the hex file holds in EEPROM slot k (counted from 0): the
\* two byte addresses of the k-th 16-bit word of the EEPROM region
EepromSlot(c, hex, k) ==
    LET E == MemoryMapping(c).eeprom.start
    IN  {p[2] : p \in {q \in hex : q[1] \in {E + 2 * k, E + 2 * k + 1}}}

\* C23: eeprom_data has eeprom_size bytes; its byte k is the data byte of
\* EEPROM slot k of the hex file, or 0xFF when the hex file holds nothing
\* in that slot.
C23_EepromOneBytePerSlot ==
    (flashData.built /\ flashData.error = "none")
    => /\ Len(flashData.eeprom_buffer) = FlashChips[flashChip].eeprom_size
       /\ \A k \in 0..(FlashChips[flashChip].eeprom_size - 1) :
             IF EepromSlot(flashChip, hex_file, k) = {}
             THEN flashData.eeprom_buffer[k + 1] = 255
             ELSE flashData.eeprom_buffer[k + 1] \in EepromSlot(flashChip, hex_file, k)

\* the core width as claimed; -1 stands for an error
ClaimedCoreBits(core_type) ==
    IF core_type \in {1, 2, 13} THEN 16
    ELSE IF core_type \in {3, 5, 6, 7, 8, 9, 10, 12} THEN 14
    ELSE IF core_type \in {4, 11} THEN 12
    ELSE -1

\* C24: the core width of a chip is 16 for core types 1, 2 and 13, 14 for
\* 3, 5..10 and 12, and 12 for 4 and 11; no core type yields "no width".
C24_CoreBitsOfEveryCoreType ==
    get_core_bits(FlashChips[flashChip].core_type)
      = ClaimedCoreBits(FlashChips[flashChip].core_type)

\* C25: read_rom returns rom_size * 2 bytes and read_eeprom returns
\* eeprom_size bytes; a read that got fewer bytes before its deadline ends
\* with InvalidResponseError, not with a shorter buffer.
C25_ReadsReturnWholeBuffers ==
    /\ (Ended("read_rom") /\ hostOutcome.error = "none")
         => Len(hostOutcome.value) = ProtoChips[chip].rom_size * 2
    /\ (Ended("read_eeprom") /\ hostOutcome.error = "none")
         => Len(hostOutcome.value) = ProtoChips[chip].eeprom_size

\* reset() found the 'B' and the version byte the unit sent
C26_VersionRecorded ==
    (port = "open" /\ hostCmd # "reset" /\ faults = 0)
      => /\ ~ConstructorRaised
         /\ detected_programmer_version = ProgrammerVersion

\* echo(msg) hands back msg and leaves the unit waiting for a command byte
\* outside its jump table
C26_EchoReturnsMsg ==
    (Ended("echo") /\ Undisturbed)
      => /\ hostOutcome.error = "none"
         /\ hostOutcome.value = hostOutcome.msg
         /\ LineState = "idle"

\* a byte of msg is written right after an opcode 2, and an opcode 2 is
\* written when every byte written before has been read back
C26_EchoLockstep ==
    (hostCmd = "echo" /\ faults = 0 /\ Wrote)
      => LET tag == cmdLog'[Len(cmdLog')]
         IN  /\ tag = "payload" => cmdLog # <<>> /\ cmdLog[Len(cmdLog)] = "echo"
             /\ tag = "echo" => /\ Len(hostRegs.result) = CountTag(cmdLog, "payload")
                                /\ hostRegs.result =
                                     SubSeq(hostOutcome.msg, 1, Len(hostRegs.result))
             /\ tag = "jump_exit" => hostRegs.result = hostOutcome.msg

\* C26: against a unit that answers the DTR probe with 'B' and a version
\* byte, reset() succeeds and records that byte; afterwards echo(msg)
\* returns exactly msg for every byte string, bytes 1 and 2 included: it
\* writes opcode 2 before each byte, reads the echoed byte before it writes
\* the next one, and leaves the unit idle.
C26_HandshakeAndEcho ==
    /\ []C26_VersionRecorded
    /\ []C26_EchoReturnsMsg
    /\ [][C26_EchoLockstep]_vars

\* an echo of two bytes, the second of them the echo opcode itself, has
\* returned on a connection whose reset recorded the version
C26_Witness ==
    /\ Ended("echo")
    /\ Undisturbed
    /\ hostOutcome.msg = <<88, 2>>
    /\ hostOutcome.value = <<88, 2>>
    /\ detected_programmer_version = ProgrammerVersion

\* the session has reached an exit: its commands ran to their end, one of
\* them raised, the reset inside the constructor of the connection raised,
\* or the construction of the programming interface failed
AtExit ==
    /\ port = "open"
    /\ hostCmd = "none"
    /\ \/ hostOutcome.error # "none"
       \/ iface = "failed"
       \/ mode # "api" /\ iface = "ready" /\ runPc > Len(Steps)
       \/ mode = "api" /\ runPc > MaxCalls

\* C30: every serial port that was opened is closed on every exit path: at
\* the normal end of the commands, when a command raises, when the reset
\* probe inside the constructor of the connection fails, and when the
\* construction of the programming interface fails. At each of these
\* exits the close of the port is what the host does next.
C30_PortClosedOnEveryExit == AtExit => ENABLED close

(***************************************************************************)
(* Properties of the hex file reader                                       *)
(***************************************************************************)
\* the line is a record: a colon, then the digits of at least five bytes
IsRecord(line) ==
    /\ hex_record_regexp(line)
    /\ hex_record_chopper(line).matched
    /\ Len(hex_record_chopper(line).data_str) % 2 = 0

RecordType(line) == int16(hex_record_chopper(line).type_str)

RecordData(line) == fromhex(hex_record_chopper(line).data_str)

RecordAddress(line) == int16(hex_record_chopper(line).address_str)

\* the line the reader reads in this step
ReadingLine == file[lineNo + 1]

\* the reader reads a record of one of the types in types, before any EOF
\* record; an extended address record carries one 16-bit word
ReadsRecordOf(types) ==
    /\ lineNo' = lineNo + 1
    /\ ~eof
    /\ IsRecord(ReadingLine)
    /\ RecordType(ReadingLine) \in types
    /\ RecordType(ReadingLine) \in {2, 4} => Len(RecordData(ReadingLine)) = 2

DataWord(line) == 256 * RecordData(line)[1] + RecordData(line)[2]

C27_Step ==
    (ReadsRecordOf({0, 2, 4}) /\ hexRaised' = "none")
      => LET type == RecordType(ReadingLine)
         IN  /\ type = 2 => /\ ext_address' = DataWord(ReadingLine) * 16
                            /\ records' = records
             /\ type = 4 => /\ ext_address' = DataWord(ReadingLine) * 65536
                            /\ records' = records
             /\ type = 0 => /\ ext_address' = ext_address
                            /\ records' = Append(records,
                                   << BitOr(RecordAddress(ReadingLine), ext_address),
                                      RecordData(ReadingLine) >>)

\* C27: after a record of type 2 that carries the word w the running
\* extended address is w << 4, after a record of type 4 it is w << 16;
\* these records emit no data, and a later data record is stored at its
\* 16-bit address combined with the running extended address.
C27_ExtendedAddress == [][C27_Step]_vars

\* the data records of a file, in file order
IsDataRecord(line) == IsRecord(line) /\ RecordType(line) = 0

DataRecords == SelectSeq(file, IsDataRecord)

IsEofRecord(line) == IsRecord(line) /\ RecordType(line) = 1

\* a record line read after an EOF record raised InvalidRecordError
C28_NothingAfterEof ==
    \A j \in 1..lineNo, i \in 1..lineNo :
       (j < i /\ IsEofRecord(file[j]) /\ hex_record_regexp(file[i]))
         => (i = lineNo /\ hexRaised = "InvalidRecordError")

\* the records of a file read to its end are its data records, in order
C28_DataRecordsInOrder ==
    (lineNo = Len(file) /\ hexRaised = "none")
      => /\ Len(records) = Len(DataRecords)
         /\ \A k \in DOMAIN records : records[k][2] = RecordData(DataRecords[k])

\* C28: once an EOF record has been read, any further record line raises
\* InvalidRecordError; and when the file is read without an error, the
\* records emitted are exactly its data records, in file order.
C28_EofDiscipline == C28_NothingAfterEof /\ C28_DataRecordsInOrder

\* a file of a data record, an EOF record and one more well-formed data
\* record has been read: the third line raised
C28_Witness ==
    /\ lineNo = 3
    /\ Len(records) = 1
    /\ IsEofRecord(file[2])
    /\ file[3] = RecordLine(2, 1, 0, <<64, 0>>, 0, TRUE)
    /\ hexRaised = "InvalidRecordError"

\* every byte of the record line, its checksum included
RecordBytes(line) == fromhex(SubSeq(Chomp(line), 2, Len(Chomp(line))))

C29_Step ==
    ReadsRecordOf({0, 1, 2, 4})
      => LET lengthOk == int16(hex_record_chopper(ReadingLine).length_str)
                           = Len(RecordData(ReadingLine))
             sumOk == SumBytes(RecordBytes(ReadingLine)) % 256 = 0
         IN  /\ (hexRaised' = "none") <=> (lengthOk /\ sumOk)
             /\ ~lengthOk => hexRaised' = "InvalidRecordError"
             /\ (lengthOk /\ ~sumOk) => hexRaised' = "InvalidChecksumError"

\* C29: a record line of a handled type is accepted exactly when its
\* declared length is the number of its data bytes and the sum of all its
\* bytes, checksum included, is 0 modulo 256, whether or not the line ends
\* with a newline; a wrong length raises InvalidRecordError and a wrong sum
\* InvalidChecksumError.
C29_LengthAndChecksum == [][C29_Step]_vars

(***************************************************************************)
(* Properties of encode_fuse_data                                          *)
(***************************************************************************)
Bit(x, b) == (x \div Pow2(b)) % 2

\* an item names an undeclared fuse or an undeclared setting of its fuse
BadItem(c, item) ==
    \/ item[1] \notin DOMAIN FuseChips[c].fuses
    \/ item[2] \notin DOMAIN FuseChips[c].fuses[item[1]]

\* the (index, mask) pairs the requested settings declare
MaskPairs(c, items) ==
    UNION { { FuseChips[c].fuses[items[n][1]][items[n][2]][p] :
                p \in DOMAIN FuseChips[c].fuses[items[n][1]][items[n][2]] } :
            n \in DOMAIN items }

\* bit b of word i of fuse_blank AND-ed with the masks declared for index i
ExpectedBit(c, items, i, b) ==
    IF /\ Bit(FuseChips[c].fuse_blank[i], b) = 1
       /\ \A pair \in MaskPairs(c, items) : pair[1] = i - 1 => Bit(pair[2], b) = 1
    THEN 1 ELSE 0

\* C31: for a chip whose settings only name fuse indices inside fuse_blank,
\* encode_fuse_data raises FuseError exactly when a key of the mapping is
\* not a declared fuse or a value is not a declared setting of its fuse;
\* otherwise it returns a list as long as fuse_blank whose word i is
\* fuse_blank[i] AND-ed with the masks the requested settings declare for
\* index i, whatever the order of the mapping: the empty mapping gives
\* fuse_blank and no bit is set that fuse_blank clears.
C31_EncodeIsMaskedBlank ==
    fuseCall = "encode_mapping"
      => LET c == fuseChip
             bad == \E n \in DOMAIN fuseArg : BadItem(c, fuseArg[n])
         IN  /\ fuseRet.error = (IF bad THEN "FuseError" ELSE "none")
             /\ ~bad =>
                  /\ Len(fuseRet.value) = Len(FuseChips[c].fuse_blank)
                  /\ \A i \in DOMAIN fuseRet.value, b \in 0..15 :
                        Bit(fuseRet.value[i], b) = ExpectedBit(c, fuseArg, i, b)
                  /\ fuseArg = <<>> => fuseRet.value = FuseChips[c].fuse_blank

\* a mapping of two fuses given in the reverse of their declaration order
\* was encoded on the chip whose blank word is narrower than its masks,
\* and cleared bits of the blank word
C31_Witness ==
    /\ fuseCall = "encode_mapping"
    /\ fuseChip = 1
    /\ Len(fuseArg) = 2
    /\ fuseArg[1][1] > fuseArg[2][1]
    /\ fuseRet.error = "none"
    /\ fuseRet.value # FuseChips[1].fuse_blank

(***************************************************************************)
(* Properties of FlashData.fuse_data                                       *)
(***************************************************************************)
\* bit b of fuse word i (counted from 1) belongs to fuse f: one of the
\* settings of f clears it
BitOfFuse(c, f, i, b) ==
    \E k \in DOMAIN FuseChips[c].fuses[f] :
        \E p \in DOMAIN FuseChips[c].fuses[f][k] :
            /\ FuseChips[c].fuses[f][k][p][1] = i - 1
            /\ Bit(FuseChips[c].fuses[f][k][p][2], b) = 0

\* C36 (part): fuse_data differs from the fuse words of the hex file only in
\* bits of overridden fuses.
C36_OnlyOverriddenBits ==
    (fuseCall = "fuse_data" /\ fuseRet.error = "none")
      => \A i \in DOMAIN fuseArg.fuse_values, b \in 0..15 :
            Bit(fuseRet.value[i], b) # Bit(fuseArg.fuse_values[i], b)
              => \E f \in DOMAIN fuseArg.fuses : BitOfFuse(fuseChip, f, i, b)

\* C36 (part): a declared fuse that is not overridden keeps the setting the
\* hex file gives it.
C36_OthersKeepSetting ==
    (fuseCall = "fuse_data" /\ fuseRet.error = "none" /\ DOMAIN fuseArg.fuses # {})
      => LET before == decode_fuse_data(fuseChip, fuseArg.fuse_values)
             after == decode_fuse_data(fuseChip, fuseRet.value)
         IN  /\ after.error = "none"
             /\ \A f \in DOMAIN before.value \ DOMAIN fuseArg.fuses :
                    after.value[f] = before.value[f]

\* C36 (part): overriding fuses with the settings the hex file already gives
\* them leaves fuse_data equal to the value without overrides.
C36_SameSettingNoChange ==
    (fuseCall = "fuse_data" /\ fuseRet.error = "none" /\ DOMAIN fuseArg.fuses # {})
      => LET before == decode_fuse_data(fuseChip, fuseArg.fuse_values)
         IN  (\A f \in DOMAIN fuseArg.fuses : fuseArg.fuses[f] = before.value[f])
               => fuseRet.value = fuseArg.fuse_values

\* C36: with overrides, fuse_data differs from the hex file's fuse words only
\* in bits of overridden fuses, the other declared fuses keep the hex file's
\* setting, and overriding with the same setting changes nothing.
C36_OverridesOnlyTouchTheirFuses ==
    /\ C36_OnlyOverriddenBits
    /\ C36_OthersKeepSetting
    /\ C36_SameSettingNoChange

(***************************************************************************)
(* Properties of merging                                                   *)
(***************************************************************************)
\* the record lies inside the buffer that starts at base
Inside(record, base) ==
    /\ record[1] >= base
    /\ record[1] + Len(record[2]) <= base + Len(DefaultData)

\* the records that cover position i of the buffer
Covering(recs, base, i) ==
    { n \in DOMAIN recs : recs[n][1] - base < i /\ i <= recs[n][1] - base + Len(recs[n][2]) }

\* position i of the merged buffer: the byte of the last record that
\* covers it, or the byte of default_data
MergedByte(recs, base, i) ==
    IF Covering(recs, base, i) = {} THEN DefaultData[i]
    ELSE LET n == CHOOSE m \in Covering(recs, base, i) :
                      \A k \in Covering(recs, base, i) : k <= m
         IN  recs[n][2][i - (recs[n][1] - base)]

\* C32: for records that all lie inside the buffer, in any address order,
\* adjacent, overlapping or with gaps, merge_records returns a buffer as
\* long as default_data that holds default_data where no record covers it
\* and the record data elsewhere, the later record winning; a record that
\* starts below base_address or ends beyond the buffer raises IndexError.
C32_MergeRecords ==
    merged.call = "merge_records"
      => IF \A n \in DOMAIN merged.records : Inside(merged.records[n], merged.base_address)
         THEN /\ merged.error = "none"
              /\ Len(merged.value) = Len(DefaultData)
              /\ \A i \in DOMAIN merged.value :
                    merged.value[i] = MergedByte(merged.records, merged.base_address, i)
         ELSE merged.error = "IndexError"

(***************************************************************************)
(* Properties of ProtocolInterface                                         *)
(***************************************************************************)
PICommandNames == { c.name : c \in PICommands }

C33_Step ==
    (pi.chip_info = 0 /\ pi'.calls = pi.calls + 1 /\ pi'.call \in PICommandNames)
      => (pi'.error = "InvalidCommandSequenceError" /\ pi'.wrote = <<>>)

\* C33: every chip command of ProtocolInterface that is called while the
\* programming variables are not initialised - before
\* init_programming_vars, after one that was not answered 'I', after
\* reset() - raises InvalidCommandSequenceError and has written no byte to
\* the port.
C33_GuardedCommands == [][C33_Step]_vars

C34_Step ==
    (pi'.calls = pi.calls + 1 /\ pi'.call = "program_18fxxxx_fuse")
      => IF pi.primed /\ pi.chip_info # 0
         THEN pi'.error # "InvalidCommandSequenceError"
         ELSE pi'.error = "InvalidCommandSequenceError" /\ pi'.wrote = <<>>

\* C34: program_18fxxxx_fuse writes to the port only if a program_id_fuses
\* call was answered 'Y' since the most recent reset() and the most recent
\* init_programming_vars; otherwise it raises InvalidCommandSequenceError
\* and writes nothing.
C34_CommitOnlyWhenPrimed == [][C34_Step]_vars

(***************************************************************************)
(* Properties of rom_is_blank                                              *)
(***************************************************************************)
\* number of 'B' bytes a rom_is_blank call has read
BlankBCount == Cardinality({i \in DOMAIN romBlank.responses : romBlank.responses[i] = Ch_B})

\* the most 'B' bytes a call may accept: rom_size/256 - 1, none below 256
BlankBLimit == IF romBlank.rom_size \div 256 >= 1 THEN (romBlank.rom_size \div 256) - 1 ELSE 0

\* C35 (part): a call still in its loop has read at most rom_size/256 - 1
\* 'B' bytes, so the 'B' after them has raised InvalidResponseError.
C35_BoundedInterim == romBlank.pc = "loop" => BlankBCount <= BlankBLimit

\* C35 (part): the call returns true on 'Y' and false on 'N' or 'C'.
C35_Answer ==
    romBlank.pc = "returned" =>
        LET last == romBlank.responses[Len(romBlank.responses)]
        IN  /\ last \in {Ch_Y, Ch_N, Ch_C}
            /\ romBlank.result = (last = Ch_Y)

\* C35 (part): whenever the call has returned or raised, the jump table has
\* been exited.
C35_JumpTableExited ==
    romBlank.pc \in {"returned", "InvalidResponseError"} => ~romBlank.in_jump_table

\* C35: rom_is_blank accepts at most rom_size/256 - 1 interim 'B' bytes and
\* raises InvalidResponseError on the next, returns true on 'Y' and false on
\* 'N' or 'C', and has left the jump table in every outcome, errors included.
C35_RomIsBlank ==
    /\ C35_BoundedInterim
    /\ C35_Answer
    /\ C35_JumpTableExited

(***************************************************************************)
(* Properties of the options of program                                    *)
(***************************************************************************)
ModifyingCommands ==
    {"erase_chip", "program_rom", "program_eeprom", "program_id_fuses",
     "program_18fxxxx_fuse"}

\* C37: when a program run raises for its --id (not hex, or of the wrong
\* decoded length) or for its --fuse overrides, no erase or program command
\* has been sent.
C37_FailFast ==
    cliRun.error # "none"
      => \A n \in DOMAIN cliRun.sent : cliRun.sent[n] \notin ModifyingCommands

\* C37 (part): overrides that name an undeclared fuse or setting are
\* rejected before any command is sent.
C37_BadOverridesRejectedEarly ==
    (cliRun.pc \in {"run", "done"} /\ cliRun.fuses # <<>>
       /\ BadItem(ProtoChips[cliRun.chip].fuse_table, cliRun.fuses[1]))
      => cliRun.error = "FuseError" /\ cliRun.sent = <<>>

(***************************************************************************)
(* Properties of ChipInfoReader                                            *)
(***************************************************************************)
\* reader r has returned from its constructor, or raised in it
CidLoaded(r) ==
    \/ cid.reader > r
    \/ /\ cid.reader = r
       /\ \/ cid.error # "none"
          \/ cid.line = Len(FileLines(cid.files[r]))

\* the names, as get_chip takes them, of the well-formed blocks of file r
WellFormedNames(r) ==
    { handle_lower(<<cid.files[r].blocks[n].name>>)[1] :
        n \in { m \in DOMAIN cid.files[r].blocks : cid.files[r].blocks[m].bad = 0 } }

\* C38: a reader of one file loads without raising, and its entries are
\* exactly the well-formed blocks of the file under their lowercase names:
\* the block of a malformed line, the lines after it included, gives no entry.
C38_MalformedBlockDiscarded ==
    (Len(cid.files) = 1 /\ CidLoaded(1))
      => /\ cid.error = "none"
         /\ DOMAIN cid.chip_entries = WellFormedNames(1)

\* C38 (part): when the malformed line is the last line of its block, the
\* block is discarded and the other blocks are loaded.
C38_MalformedLastLine ==
    (Len(cid.files) = 1 /\ CidLoaded(1)
       /\ \A n \in DOMAIN cid.files[1].blocks : cid.files[1].blocks[n].bad \in {0, 5})
      => /\ cid.error = "none"
         /\ DOMAIN cid.chip_entries = WellFormedNames(1)

\* C39: once a second reader has been built from another file, get_chip of
\* the first reader still answers for exactly the chips of the first file,
\* with the entries the first reader built.
C39_ReadersAreIsolated ==
    (Len(cid.files) = 2 /\ CidLoaded(2))
      => \A name \in {"a", "b", "c"} :
            LET found == get_chip(cid, name)
            IN  IF name \in WellFormedNames(1)
                THEN found.error = "none" /\ found.value.reader = 1
                ELSE found.error = "KeyError"

\* C39 (part): a single reader exposes exactly the chips of its own file.
C39_OwnChips ==
    (Len(cid.files) = 2 /\ cid.reader = 1 /\ CidLoaded(1))
      => \A name \in {"a", "b", "c"} :
            (get_chip(cid, name).error = "none") = (name \in WellFormedNames(1))

(***************************************************************************)
(* Properties of the mocked serial device                                  *)
(***************************************************************************)
\* C40 (part): what each side has received is a prefix of what the other
\* has written, and when neither thread is inside a buffer statement the
\* bytes written are those received followed by those still in the buffer.
C40_ExactlyOnceInOrder ==
    /\ IsPrefix(mock.thread_read, mock.host_wrote)
    /\ IsPrefix(mock.host_read, mock.thread_wrote)
    /\ (mock.host_pc = "idle" /\ mock.thread_pc \in {"listen", "read", "answer"})
         => /\ mock.host_wrote = mock.thread_read \o mock.input_buffer
            /\ mock.thread_wrote = mock.host_read \o mock.output_buffer

\* C40 (part): the device thread writes a byte only for a byte it received.
C40_OnlyReactions == Len(mock.thread_wrote) <= Len(mock.thread_read)

\* C40: under every interleaving of the test thread and the device thread
\* every byte written by one side is received by the other exactly once and
\* in order, and the device thread emits a byte only in reaction to a byte
\* it received, never after an idle read timeout.
C40_MockedLine ==
    /\ C40_ExactlyOnceInOrder
    /\ C40_OnlyReactions

====
